---- MODULE Spec2Model ----
(***************************************************************************)
(* A model of snapshots.py (drhdev/snapshots): the retention selector, the *)
(* lock file protocol of main(), the per-server lifecycle pass of          *)
(* SnapshotManager, the run loop and the two notification senders.         *)
(*                                                                         *)
(* Twelve specifications share the variables:                              *)
(*   SpecSelect  identify_snapshots_to_delete on every bounded input       *)
(*   SpecTemplate  replace_template_variables and                          *)
(*               replace_template_variables_dict on bounded inputs         *)
(*   SpecChoose  the message or payload write_final_status hands to a      *)
(*               sender, for bounded templates                             *)
(*   SpecLoad    load_configs over bounded lists of configuration files    *)
(*   SpecLock    several invocations of acquire_lock / release_lock        *)
(*   SpecMain    overlapping invocations of main() and their exit paths    *)
(*   SpecNotify  one call of send_telegram_notification or                 *)
(*               send_webhook_notification                                 *)
(*   SpecPass    run() over one configured server, every bounded listing   *)
(*   SpecCreate  the same up to the end of snapshot creation, and          *)
(*               SpecCreateFair with the polling loop going on             *)
(*   SpecSteady  consecutive passes for one server                         *)
(*   Spec        run() over a list of configured servers                   *)
(***************************************************************************)
EXTENDS Integers, Sequences, FiniteSets, TLC

VARIABLES
    \* ---- identify_snapshots_to_delete, called on its own
    sel_pc,          \* "call" before the call, "returned" after it
    sel_arg,         \* the snapshot list as it was handed in
    sel_snapshots,   \* the same list object after the call (sorted in place)
    sel_retain,      \* the retain argument
    sel_result,      \* the list returned
    \* ---- replace_template_variables(_dict), called on its own
    tpl_pc,          \* "idle", "call_str", "call_dict", "returned", "returned_dict"
    tpl_template,    \* the template argument: a text, or a payload
    tpl_values,      \* the values of the placeholders: server.name, hostname
    tpl_result,      \* what the call returned
    \* ---- load_configs, called on its own
    ld_pc,           \* "idle", "loading" or "returned"
    ld_settings,     \* the settings of snapshots.config it resolves against
    ld_files,        \* what the files of self.config_paths hold, in order
    ld_i,            \* the position in ld_files of the file being read
    ld_servers,      \* the local list servers
    \* ---- lock file protocol, one entry per invocation of main()
    lpc,             \* where each invocation is in acquire_lock/main/release_lock
    lock_fd,         \* the inode each invocation's descriptor refers to (0: none)
    lock_path,       \* the inode LOCK_FILE names (0: no such file)
    flock_owner,     \* per inode, the invocation holding flock on it (0: free)
    file_content,    \* per inode, the pid written in it (0: empty)
    next_inode,      \* the next unused inode number
    main_exit,       \* per invocation, how the try body of main() ended ("none": not yet)
    releases,        \* per invocation, the calls of release_lock made
    \* ---- one call of a notification sender
    snd_pc,          \* "idle", "entry", "attempt", "sleep", "returned"
    snd_kind,        \* "telegram" or "webhook" ("none" when idle)
    snd_configured,  \* a token and chat id, or a URL, reached the sender
    snd_retries,     \* max_retries
    snd_delay,       \* base_delay_seconds
    snd_attempt,     \* the loop variable attempt
    snd_requests,    \* number of requests.post calls made
    snd_failed,      \* how many of them ended in a non-success status or an exception
    snd_sleeps,      \* the time.sleep calls made, in order
    snd_result,      \* "none", "True" or "False": what the call returned
    \* ---- SnapshotManager.run and the pass it makes for each server
    servers,         \* self.servers: the ServerConfig list, fixed for the run
    config,          \* the module-level settings read from snapshots.config
    cloud,           \* the snapshots the providers hold
    clock,           \* number of snapshots created since the run began
    pc,              \* the statement run() or the current pass is at
    idx,             \* run(): index of the server being processed, from 1
    success_count,   \* run(): success_count
    failure_count,   \* run(): failure_count
    exit_code,       \* the exit code of run() (-1: not exited)
    snapshots,       \* pass: the list of step 1
    to_delete,       \* pass: the list of step 2
    snapshot_name,   \* pass: what create_snapshot returned (<<>>: None)
    elapsed,         \* pass: seconds slept since action polling began (0 outside it)
    poll_reply,      \* pass: what the last poll of the action gave ("none": no poll,
                     \* or the polling loop ended on the timeout)
    del_i,           \* pass: number of candidates the delete loop is done with
    del_errors,      \* pass: the outcomes the delete loop has logged as errors
    del_reply,       \* pass: inside the delete loop, what its last request gave
    total_snapshots, \* pass: len(updated_snapshots) of step 5
    status_lines,    \* pass: the FINAL_STATUS records written, in order
    steps,           \* pass: the steps made, in order (the polls of an action: one entry)
    delete_requests, \* pass: ids of the DELETE requests issued, in order
    create_outcome,  \* pass: how creation ended ("none": not yet)
    lists_failed,    \* pass: the listing steps ("list", "relist") a request of which failed
    tg_result,       \* pass: "none", "skipped", "True", "False" for the chat channel
    wh_result,       \* pass: the same for the webhook channel
    counted,         \* pass: "none", or how run() counted it: "success", "failure"
    \* ---- what the run has done so far
    started,         \* the positions in self.servers whose pass was started, in order
    results          \* the status of the FINAL_STATUS line of each pass so far, in order

selVars == <<sel_pc, sel_arg, sel_snapshots, sel_retain, sel_result>>
tplVars == <<tpl_pc, tpl_template, tpl_values, tpl_result>>
loadVars == <<ld_pc, ld_settings, ld_files, ld_i, ld_servers>>
callVars == <<selVars, tplVars, loadVars>>
lockVars == <<lpc, lock_fd, lock_path, flock_owner, file_content, next_inode,
             main_exit, releases>>
sndVars == <<snd_pc, snd_kind, snd_configured, snd_retries, snd_delay,
             snd_attempt, snd_requests, snd_failed, snd_sleeps, snd_result>>
passVars == <<snapshots, to_delete, snapshot_name, elapsed, poll_reply, del_i, del_errors, del_reply, total_snapshots,
              status_lines, steps, delete_requests, create_outcome, lists_failed,
              tg_result, wh_result, counted>>
loopVars == <<pc, idx, success_count, failure_count, exit_code, started, results>>
runVars == <<servers, config, cloud, clock, loopVars, passVars>>
vars == <<callVars, lockVars, sndVars, runVars>>

----------------------------------------------------------------------------
(* Bounds of the model.                                                    *)

\* longest snapshot list handed to the selector on its own
MaxLen == 3
\* creation timestamps of the snapshots that exist before a run: 1..MaxTime
MaxTime == 2
\* largest retain count tried
MaxRetain == 2
\* number of invocations of main() that may overlap
NumProcs == 3
\* number of overlapping invocations whose way through main() is followed
NumRunning == 2
\* largest retry count and base delay handed to a sender on its own
MaxRetries == 3
MaxDelay == 2
\* number of servers in a run over several servers
NumServers == 2
\* records on a page of a provider listing (the code asks for 200 and 50)
PerPage == 2

----------------------------------------------------------------------------
(* Settings of the program.                                                *)

\* time.sleep(5) between two polls of an action
PollSleep == 5

\* The settings snapshots.config gives the runs of the model; they bound it.
\* [TIMING] snapshot_creation_timeout in seconds (two polling intervals; the
\* default is 900)
SNAPSHOT_CREATION_TIMEOUT == 10
\* [TELEGRAM] and [WEBHOOK] retries (default 3) and
\* base_delay_between_retries (default 2)
TELEGRAM_RETRIES == 2
TELEGRAM_BASE_DELAY_BETWEEN_RETRIES == 2
WEBHOOK_RETRIES == 2
WEBHOOK_BASE_DELAY_BETWEEN_RETRIES == 2

----------------------------------------------------------------------------
(* Helpers.                                                                *)

Min(a, b) == IF a <= b THEN a ELSE b
Max(a, b) == IF a >= b THEN a ELSE b

Range(s) == {s[i] : i \in 1..Len(s)}

\* every sequence over S of length at most n
SeqsUpTo(S, n) == UNION {[1..k -> S] : k \in 0..n}

----------------------------------------------------------------------------
(* Retention selector.                                                     *)

\* list.sort(key=created_at, reverse=True) inserts stably: equal keys keep
\* the order they had in the list.
RECURSIVE InsertNewestFirst(_, _)
InsertNewestFirst(sorted, x) ==
    IF sorted = <<>> THEN <<x>>
    ELSE IF Head(sorted).created_at >= x.created_at
         THEN <<Head(sorted)>> \o InsertNewestFirst(Tail(sorted), x)
         ELSE <<x>> \o sorted

RECURSIVE SortFrom(_, _)
SortFrom(rest, acc) ==
    IF rest = <<>> THEN acc
    ELSE SortFrom(Tail(rest), InsertNewestFirst(acc, Head(rest)))

\* snapshots.sort(key=lambda x: x['created_at'], reverse=True)
SortNewestFirst(snaps) == SortFrom(snaps, <<>>)

\* the mutant: the sort without reverse=True, oldest first
RECURSIVE InsertOldestFirst(_, _)
InsertOldestFirst(sorted, x) ==
    IF sorted = <<>> THEN <<x>>
    ELSE IF Head(sorted).created_at <= x.created_at
         THEN <<Head(sorted)>> \o InsertOldestFirst(Tail(sorted), x)
         ELSE <<x>> \o sorted

RECURSIVE SortOldestFrom(_, _)
SortOldestFrom(rest, acc) ==
    IF rest = <<>> THEN acc
    ELSE SortOldestFrom(Tail(rest), InsertOldestFirst(acc, Head(rest)))

\* Python's s[k:], k of either sign
PySliceFrom(s, k) ==
    LET start == IF k >= 0 THEN Min(k, Len(s)) ELSE Max(Len(s) + k, 0)
    IN  SubSeq(s, start + 1, Len(s))

\* the mutant: the selection made on the list sorted oldest first
IdentifyOldestFirst(snaps, retain) == PySliceFrom(SortOldestFrom(snaps, <<>>), retain)

\* another mutant: one more snapshot kept than the retain count says
IdentifyKeepOneMore(snaps, retain) == PySliceFrom(SortNewestFirst(snaps), retain + 1)

\* identify_snapshots_to_delete: the list it returns
IdentifySnapshotsToDelete(snaps, retain) == PySliceFrom(SortNewestFirst(snaps), retain)

\* a snapshot as the listing functions build it (id, created_at); the name
\* plays no part in the selection
SelSnapshots == [id : 1..MaxLen, created_at : 1..MaxTime]

\* lists whose i-th element has id i
SelInputs == {s \in SeqsUpTo(SelSnapshots, MaxLen) : \A i \in 1..Len(s) : s[i].id = i}

SelInit ==
    /\ sel_pc = "call"
    /\ sel_arg \in SelInputs
    /\ sel_snapshots = sel_arg
    /\ sel_retain \in -1..MaxRetain
    /\ sel_result = <<>>

SelIdle ==
    /\ sel_pc = "idle"
    /\ sel_arg = <<>>
    /\ sel_snapshots = <<>>
    /\ sel_retain = 0
    /\ sel_result = <<>>

\* the call: the list is sorted in place and the tail returned
SelCall ==
    /\ sel_pc = "call"
    /\ sel_snapshots' = SortNewestFirst(sel_snapshots)
    /\ sel_result' = IdentifySnapshotsToDelete(sel_snapshots, sel_retain)
    /\ sel_pc' = "returned"
    /\ UNCHANGED <<sel_arg, sel_retain>>
    /\ UNCHANGED <<tplVars, loadVars, lockVars, sndVars, runVars>>

----------------------------------------------------------------------------
(* Template substitution: replace_template_variables and                   *)
(* replace_template_variables_dict.                                        *)

\* A text is a sequence of characters. Two placeholders of the vocabulary
\* stand for the twelve: '{server_name}', written {n}, and '{hostname}',
\* written {h}; server_name comes before hostname in the replacements dict.
Chars == {"{", "}", "n", "h"}
PhServerName == <<"{", "n", "}">>
PhHostname == <<"{", "h", "}">>

\* longest value of a placeholder, most pieces of a message template,
\* deepest nesting below a key of a payload template
MaxValLen == 3
MaxPieces == 2
MaxDepth == 2

\* replacements.items(): placeholder and value, in the order of the dict
Replacements(values) ==
    << <<PhServerName, values.server_name>>, <<PhHostname, values.hostname>> >>

StartsWith(s, t) == Len(t) <= Len(s) /\ SubSeq(s, 1, Len(t)) = t

\* str.replace(old, new): every occurrence of old, found from the left and
\* not overlapping, is replaced; what was put in is not looked at again
RECURSIVE StrReplace(_, _, _)
StrReplace(s, old, new) ==
    IF s = <<>> THEN <<>>
    ELSE IF StartsWith(s, old)
         THEN new \o StrReplace(SubSeq(s, Len(old) + 1, Len(s)), old, new)
         ELSE <<Head(s)>> \o StrReplace(Tail(s), old, new)

\* for placeholder, value in replacements.items():
\*     result = result.replace(placeholder, value)
RECURSIVE ReplaceEach(_, _)
ReplaceEach(text, reps) ==
    IF reps = <<>> THEN text
    ELSE ReplaceEach(StrReplace(text, Head(reps)[1], Head(reps)[2]), Tail(reps))

ReplaceTemplateVariables(template, values) ==
    ReplaceEach(template, Replacements(values))

\* the values of a payload template: a string, a value that is neither
\* string, dict nor list (a number), a dict (its items in order), a list
StrNode(text) == [kind |-> "str", val |-> text]
NumNode == [kind |-> "num", val |-> <<"1">>]
ListNode(items) == [kind |-> "list", val |-> items]
DictNode(items) == [kind |-> "dict", val |-> items]
Item(k, node) == [key |-> k, node |-> node]

\* replace_template_variables_dict: a string value is replaced, a dict is
\* gone into, in a list the dicts are gone into and the strings replaced,
\* every other value, and every other item of a list, is taken as it is
RECURSIVE ReplaceTemplateVariablesDict(_, _)
ReplaceTemplateVariablesDict(template_dict, values) ==
    LET InList(item) ==
            CASE item.kind = "dict" -> ReplaceTemplateVariablesDict(item, values)
              [] item.kind = "str" -> StrNode(ReplaceTemplateVariables(item.val, values))
              [] OTHER -> item
        Of(value) ==
            CASE value.kind = "str" -> StrNode(ReplaceEach(value.val, Replacements(values)))
              [] value.kind = "dict" -> ReplaceTemplateVariablesDict(value, values)
              [] value.kind = "list" ->
                    ListNode([i \in 1..Len(value.val) |-> InList(value.val[i])])
              [] OTHER -> value
    IN  DictNode([i \in 1..Len(template_dict.val) |->
                    Item(template_dict.val[i].key, Of(template_dict.val[i].node))])

\* the texts a placeholder value may be: Chars in any order, braces included
ValueTexts == SeqsUpTo(Chars, MaxValLen) \ {<<>>}

\* message templates: pieces put one after the other, each a placeholder of
\* the vocabulary or a letter
RECURSIVE Concat(_)
Concat(pieces) == IF pieces = <<>> THEN <<>> ELSE Head(pieces) \o Concat(Tail(pieces))

MessageTemplates ==
    {Concat(ps) : ps \in SeqsUpTo({PhServerName, PhHostname, <<"n">>}, MaxPieces)}

\* payload values nested to depth d: strings with or without a placeholder,
\* a number, one-item lists and one-item dicts of values of depth d - 1
RECURSIVE PayloadValues(_)
PayloadValues(d) ==
    IF d = 0 THEN {StrNode(PhServerName), StrNode(<<"n">>), NumNode}
    ELSE PayloadValues(d - 1)
         \cup {ListNode(<<v>>) : v \in PayloadValues(d - 1)}
         \cup {DictNode(<<Item("k", v)>>) : v \in PayloadValues(d - 1)}

PayloadTemplates == {DictNode(<<Item("a", v)>>) : v \in PayloadValues(MaxDepth)}

TplIdle ==
    /\ tpl_pc = "idle"
    /\ tpl_template = <<>>
    /\ tpl_values = <<>>
    /\ tpl_result = <<>>

\* a call of either function about to be made
TplInit ==
    /\ tpl_result = <<>>
    /\ \/ /\ tpl_pc = "call_str"
          /\ tpl_template \in MessageTemplates
          /\ tpl_values \in [server_name : ValueTexts, hostname : ValueTexts]
       \/ /\ tpl_pc = "call_dict"
          /\ tpl_template \in PayloadTemplates
          /\ tpl_values \in [server_name : {<<"n">>, PhHostname}, hostname : {<<"h">>}]

ReplaceCall ==
    /\ tpl_pc = "call_str"
    /\ tpl_result' = ReplaceTemplateVariables(tpl_template, tpl_values)
    /\ tpl_pc' = "returned"
    /\ UNCHANGED <<tpl_template, tpl_values>>
    /\ UNCHANGED <<selVars, loadVars, lockVars, sndVars, runVars>>

ReplaceDictCall ==
    /\ tpl_pc = "call_dict"
    /\ tpl_result' = ReplaceTemplateVariablesDict(tpl_template, tpl_values)
    /\ tpl_pc' = "returned_dict"
    /\ UNCHANGED <<tpl_template, tpl_values>>
    /\ UNCHANGED <<selVars, loadVars, lockVars, sndVars, runVars>>

----------------------------------------------------------------------------
(* Template choice: write_final_status and send_telegram_notification.     *)

\* None, and what a falsy or truthy Python value is for the templates
None == [kind |-> "none", val |-> <<>>]
Truthy(v) == v.kind # "none" /\ v.val # <<>>

\* format_telegram_message_from_data: the fixed Markdown text over the
\* fields of the notification data; '*' stands for its fixed parts
FormatTelegramMessageFromData(values) ==
    <<"*">> \o values.server_name \o <<"*">> \o values.hostname

\* create_notification_data: the fixed fields as a dict
NotificationData(values) ==
    DictNode(<<Item("server_name", StrNode(values.server_name)),
               Item("hostname", StrNode(values.hostname))>>)

\* the texts a message template of the server ("S" for success, "F" for
\* failure) or of the global configuration ("s", "f") may be; the empty
\* text is the template that is not set
TemplateTexts(letter) ==
    {<<>>, <<letter>>, PhServerName, <<letter>> \o PhServerName}

\* the payload templates of a server: none, or a dict (isinstance check of
\* load_configs), the empty one included
ServerPayloads(letter) ==
    {None, DictNode(<<>>), DictNode(<<Item(letter, StrNode(PhServerName))>>)}

\* the payload templates of the global configuration: not set, or a text
\* that json.loads refuses, or what json.loads makes of it
GlobalPayloads(letter) ==
    {None,
     [kind |-> "invalid", val |-> <<letter>>],
     [kind |-> "json", val |-> DictNode(<<Item(letter, StrNode(PhServerName))>>)],
     [kind |-> "json", val |-> ListNode(<<StrNode(PhServerName)>>)]}

\* the template of the status at hand
ForStatus(status, success, failure) ==
    IF status = "success" THEN success ELSE failure

\* write_final_status, Telegram part: custom_message
CustomMessage(t, values) ==
    LET server_message == ForStatus(t.status, t.server_success, t.server_failure)
        MESSAGE == ForStatus(t.status, t.global_success, t.global_failure)
    IN  IF server_message # <<>>
        THEN [kind |-> "str", val |-> ReplaceTemplateVariables(server_message, values)]
        ELSE IF MESSAGE # <<>>
             THEN [kind |-> "str", val |-> ReplaceTemplateVariables(MESSAGE, values)]
             ELSE None

\* send_telegram_notification: formatted_message
FormattedMessage(custom_message, values) ==
    IF Truthy(custom_message)
    THEN custom_message.val
    ELSE FormatTelegramMessageFromData(values)

Sent(what) == [kind |-> "sent", val |-> what]
Raised == [kind |-> "raised", val |-> <<>>]

\* write_final_status, webhook part: the payload handed to
\* send_webhook_notification, or the AttributeError of .items() on a
\* fallback payload that is no dict
Payload(t, values) ==
    LET server_payload == ForStatus(t.status, t.server_success, t.server_failure)
        PAYLOAD == ForStatus(t.status, t.global_success, t.global_failure)
    IN  IF Truthy(server_payload)
        THEN Sent(ReplaceTemplateVariablesDict(server_payload, values))
        ELSE CASE PAYLOAD.kind = "none" -> Sent(NotificationData(values))
               [] PAYLOAD.kind = "invalid" -> Sent(NotificationData(values))
               [] PAYLOAD.kind = "json" /\ PAYLOAD.val.kind = "dict" ->
                      Sent(ReplaceTemplateVariablesDict(PAYLOAD.val, values))
               [] OTHER -> Raised

\* a notification about to be built for a channel: the status, the
\* templates of the server and of the global configuration, the values
ChooseInit ==
    /\ tpl_result = <<>>
    /\ tpl_values \in [server_name : {<<>>, <<"n">>}, hostname : {<<"h">>}]
    /\ \/ /\ tpl_pc = "telegram"
          /\ tpl_template \in [status : {"success", "failure"},
                               server_success : TemplateTexts("S"),
                               server_failure : TemplateTexts("F"),
                               global_success : TemplateTexts("s"),
                               global_failure : TemplateTexts("f")]
       \/ /\ tpl_pc = "webhook"
          /\ tpl_template \in [status : {"success", "failure"},
                               server_success : ServerPayloads("S"),
                               server_failure : ServerPayloads("F"),
                               global_success : GlobalPayloads("s"),
                               global_failure : GlobalPayloads("f")]

ChooseMessage ==
    /\ tpl_pc = "telegram"
    /\ tpl_result' = Sent(FormattedMessage(CustomMessage(tpl_template, tpl_values), tpl_values))
    /\ tpl_pc' = "telegram_done"
    /\ UNCHANGED <<tpl_template, tpl_values>>
    /\ UNCHANGED <<selVars, loadVars, lockVars, sndVars, runVars>>

ChoosePayload ==
    /\ tpl_pc = "webhook"
    /\ tpl_result' = Payload(tpl_template, tpl_values)
    /\ tpl_pc' = "webhook_done"
    /\ UNCHANGED <<tpl_template, tpl_values>>
    /\ UNCHANGED <<selVars, loadVars, lockVars, sndVars, runVars>>

----------------------------------------------------------------------------
(* Lock file protocol.                                                     *)

Procs == 1..NumProcs
Inodes == 1..NumProcs

LockIdle ==
    /\ lpc = [p \in Procs |-> "off"]
    /\ lock_fd = [p \in Procs |-> 0]
    /\ lock_path = 0
    /\ flock_owner = [i \in Inodes |-> 0]
    /\ file_content = [i \in Inodes |-> 0]
    /\ next_inode = 1
    /\ main_exit = [p \in Procs |-> "none"]
    /\ releases = [p \in Procs |-> 0]

\* every invocation is about to call acquire_lock; the lock file of an
\* earlier, cleanly ended run does not exist
LockInit ==
    /\ lpc = [p \in Procs |-> "start"]
    /\ lock_fd = [p \in Procs |-> 0]
    /\ lock_path = 0
    /\ flock_owner = [i \in Inodes |-> 0]
    /\ file_content = [i \in Inodes |-> 0]
    /\ next_inode = 1
    /\ main_exit = [p \in Procs |-> "none"]
    /\ releases = [p \in Procs |-> 0]

\* NumRunning invocations are about to call acquire_lock
MainInit ==
    /\ lpc = [p \in Procs |-> IF p <= NumRunning THEN "start" ELSE "off"]
    /\ lock_fd = [p \in Procs |-> 0]
    /\ lock_path = 0
    /\ flock_owner = [i \in Inodes |-> 0]
    /\ file_content = [i \in Inodes |-> 0]
    /\ next_inode = 1
    /\ main_exit = [p \in Procs |-> "none"]
    /\ releases = [p \in Procs |-> 0]

\* os.open(LOCK_FILE, O_CREAT | O_WRONLY | O_TRUNC): creates the file when the
\* path names none, and empties it in either case
OpenLockFile(p) ==
    /\ lpc[p] = "start"
    /\ LET i == IF lock_path = 0 THEN next_inode ELSE lock_path
       IN  /\ lock_fd' = [lock_fd EXCEPT ![p] = i]
           /\ lock_path' = i
           /\ file_content' = [file_content EXCEPT ![i] = 0]
           /\ next_inode' = IF lock_path = 0 THEN next_inode + 1 ELSE next_inode
    /\ lpc' = [lpc EXCEPT ![p] = "opened"]
    /\ UNCHANGED flock_owner
    /\ UNCHANGED <<main_exit, releases>>
    /\ UNCHANGED <<callVars, sndVars, runVars>>

\* os.makedirs or os.open raises: except Exception, sys.exit(3)
OpenLockFileFails(p) ==
    /\ lpc[p] = "start"
    /\ lpc' = [lpc EXCEPT ![p] = "exit3"]
    /\ UNCHANGED <<lock_fd, lock_path, flock_owner, file_content, next_inode>>
    /\ UNCHANGED <<main_exit, releases>>
    /\ UNCHANGED <<callVars, sndVars, runVars>>

\* fcntl.flock(lock_fd, LOCK_EX | LOCK_NB) succeeds: nobody holds the inode
FlockAcquired(p) ==
    /\ lpc[p] = "opened"
    /\ flock_owner[lock_fd[p]] = 0
    /\ flock_owner' = [flock_owner EXCEPT ![lock_fd[p]] = p]
    /\ lpc' = [lpc EXCEPT ![p] = "flocked"]
    /\ UNCHANGED <<lock_fd, lock_path, file_content, next_inode>>
    /\ UNCHANGED <<main_exit, releases>>
    /\ UNCHANGED <<callVars, sndVars, runVars>>

\* the mutant of FlockBusy: the refused invocation goes through release_lock
\* on its way out and removes the lock file
FlockBusyReleases(p) ==
    /\ lpc[p] = "opened"
    /\ flock_owner[lock_fd[p]] # 0
    /\ lock_fd' = [lock_fd EXCEPT ![p] = 0]
    /\ lpc' = [lpc EXCEPT ![p] = "exit3"]
    /\ lock_path' = 0
    /\ releases' = [releases EXCEPT ![p] = releases[p] + 1]
    /\ UNCHANGED <<flock_owner, file_content, next_inode, main_exit>>
    /\ UNCHANGED <<callVars, sndVars, runVars>>

\* BlockingIOError: os.close(lock_fd), sys.exit(3)
FlockBusy(p) ==
    /\ lpc[p] = "opened"
    /\ flock_owner[lock_fd[p]] # 0
    /\ lock_fd' = [lock_fd EXCEPT ![p] = 0]
    /\ lpc' = [lpc EXCEPT ![p] = "exit3"]
    /\ UNCHANGED <<lock_path, flock_owner, file_content, next_inode>>
    /\ UNCHANGED <<main_exit, releases>>
    /\ UNCHANGED <<callVars, sndVars, runVars>>

\* os.write(lock_fd, pid); return lock_fd: main() goes on to load the
\* configurations and run
WritePid(p) ==
    /\ lpc[p] = "flocked"
    /\ file_content' = [file_content EXCEPT ![lock_fd[p]] = p]
    /\ lpc' = [lpc EXCEPT ![p] = "held"]
    /\ UNCHANGED <<lock_fd, lock_path, flock_owner, next_inode>>
    /\ UNCHANGED <<main_exit, releases>>
    /\ UNCHANGED <<callVars, sndVars, runVars>>

\* the ways the try body of main() ends once the lock is held: sys.exit(0)
\* for want of configuration files or of valid ones, run() returning,
\* run() calling sys.exit(1) or sys.exit(2), an exception
MainExits == {"no_config", "completed", "exit1", "exit2", "exception"}

\* the mutant of MainBody: sys.exit ends the process there and then
MainBodyExitsAtOnce(p) ==
    /\ lpc[p] = "held"
    /\ main_exit[p] = "none"
    /\ \E e \in MainExits :
        /\ main_exit' = [main_exit EXCEPT ![p] = e]
        /\ lpc' = [lpc EXCEPT ![p] = IF e \in {"no_config", "exit1", "exit2"}
                                      THEN "done" ELSE "held"]
    /\ UNCHANGED <<lock_fd, lock_path, flock_owner, file_content, next_inode, releases>>
    /\ UNCHANGED <<callVars, sndVars, runVars>>

\* another mutant of MainBody: the configurations are loaded and run() is
\* called whether or not acquire_lock has returned
MainBodyWithoutLock(p) ==
    /\ lpc[p] \in {"start", "held"}
    /\ main_exit[p] = "none"
    /\ \E e \in MainExits : main_exit' = [main_exit EXCEPT ![p] = e]
    /\ UNCHANGED <<lpc, lock_fd, lock_path, flock_owner, file_content, next_inode, releases>>
    /\ UNCHANGED <<callVars, sndVars, runVars>>

\* the try body of main() after acquire_lock: configuration files, the
\* SnapshotManager, run(). SystemExit and exceptions alike pass through
\* the finally clause.
MainBody(p) ==
    /\ lpc[p] = "held"
    /\ main_exit[p] = "none"
    /\ \E e \in MainExits : main_exit' = [main_exit EXCEPT ![p] = e]
    /\ UNCHANGED <<lpc, lock_fd, lock_path, flock_owner, file_content, next_inode, releases>>
    /\ UNCHANGED <<callVars, sndVars, runVars>>

\* main()'s finally: lock_fd is not None, release_lock begins,
\* fcntl.flock(lock_fd, LOCK_UN)
Unlock(p) ==
    /\ lpc[p] = "held"
    /\ main_exit[p] # "none"
    /\ releases' = [releases EXCEPT ![p] = releases[p] + 1]
    /\ flock_owner' = [flock_owner EXCEPT ![lock_fd[p]] = 0]
    /\ lpc' = [lpc EXCEPT ![p] = "unlocked"]
    /\ UNCHANGED <<lock_fd, lock_path, file_content, next_inode, main_exit>>
    /\ UNCHANGED <<callVars, sndVars, runVars>>

\* os.close(lock_fd)
CloseLockFile(p) ==
    /\ lpc[p] = "unlocked"
    /\ lock_fd' = [lock_fd EXCEPT ![p] = 0]
    /\ lpc' = [lpc EXCEPT ![p] = "closed"]
    /\ UNCHANGED <<lock_path, flock_owner, file_content, next_inode>>
    /\ UNCHANGED <<main_exit, releases>>
    /\ UNCHANGED <<callVars, sndVars, runVars>>

\* os.remove(LOCK_FILE): unlinks whatever the path names now; OSError (no
\* such file) is ignored; release_lock returns and the process ends
RemoveLockFile(p) ==
    /\ lpc[p] = "closed"
    /\ lock_path' = 0
    /\ lpc' = [lpc EXCEPT ![p] = "done"]
    /\ UNCHANGED <<lock_fd, flock_owner, file_content, next_inode>>
    /\ UNCHANGED <<main_exit, releases>>
    /\ UNCHANGED <<callVars, sndVars, runVars>>

LockNext ==
    \E p \in Procs :
        \/ OpenLockFile(p)
        \/ OpenLockFileFails(p)
        \/ FlockAcquired(p)
        \/ FlockBusy(p)
        \/ WritePid(p)
        \/ MainBody(p)
        \/ Unlock(p)
        \/ CloseLockFile(p)
        \/ RemoveLockFile(p)

----------------------------------------------------------------------------
(* Notification senders: send_telegram_notification and                    *)
(* send_webhook_notification run the same loop.                            *)

RECURSIVE Pow2(_)
Pow2(n) == IF n <= 0 THEN 1 ELSE 2 * Pow2(n - 1)

\* the mutant: the exponent is the attempt number, not attempt - 1
BackoffDelayFromTwo(base, attempt) == base * Pow2(attempt)

\* delay_seconds = base_delay_seconds * (2 ** (attempt - 1))
BackoffDelay(base, attempt) == base * Pow2(attempt - 1)

\* what a requests.post call can give: an HTTP status, or a
\* requests.exceptions.RequestException (timeout, connection error)
Responses ==
    {[raised |-> TRUE, status_code |-> 0]}
    \cup {[raised |-> FALSE, status_code |-> c] : c \in {200, 204, 404, 500}}

\* the mutant of DeliverySucceeded: the chat sender takes any 2xx as well
DeliverySucceededAny2xx(kind, resp) ==
    ~resp.raised /\ resp.status_code >= 200 /\ resp.status_code < 300

\* the success test of each sender
DeliverySucceeded(kind, resp) ==
    IF resp.raised THEN FALSE
    ELSE IF kind = "telegram" THEN resp.status_code = 200
    ELSE resp.status_code >= 200 /\ resp.status_code < 300

SndIdle ==
    /\ snd_pc = "idle"
    /\ snd_kind = "none"
    /\ snd_configured = FALSE
    /\ snd_retries = 0
    /\ snd_delay = 0
    /\ snd_attempt = 0
    /\ snd_requests = 0
    /\ snd_failed = 0
    /\ snd_sleeps = <<>>
    /\ snd_result = "none"

\* a sender is called with its arguments
SndInit ==
    /\ snd_pc = "entry"
    /\ snd_kind \in {"telegram", "webhook"}
    /\ snd_configured \in BOOLEAN
    /\ snd_retries \in 0..MaxRetries
    /\ snd_delay \in 0..MaxDelay
    /\ snd_attempt = 0
    /\ snd_requests = 0
    /\ snd_failed = 0
    /\ snd_sleeps = <<>>
    /\ snd_result = "none"

\* the early return (no token or chat id, no URL), else the loop is entered:
\* for attempt in range(1, max_retries + 1)
SendEnter ==
    /\ snd_pc = "entry"
    /\ IF ~snd_configured \/ snd_retries < 1
       THEN /\ snd_result' = "False"
            /\ snd_pc' = "returned"
            /\ UNCHANGED snd_attempt
       ELSE /\ snd_attempt' = 1
            /\ snd_pc' = "attempt"
            /\ UNCHANGED snd_result
    /\ UNCHANGED <<snd_kind, snd_configured, snd_retries, snd_delay,
                   snd_requests, snd_failed, snd_sleeps>>
    /\ UNCHANGED <<callVars, lockVars, runVars>>

\* one requests.post that gives resp: success returns True; otherwise the
\* loop sleeps when attempt < max_retries and falls out (return False) after
\* the last attempt
SendAttemptGiven(resp) ==
    /\ snd_pc = "attempt"
    /\ snd_requests' = snd_requests + 1
    /\ snd_failed' = IF DeliverySucceeded(snd_kind, resp)
                     THEN snd_failed ELSE snd_failed + 1
    /\ IF DeliverySucceeded(snd_kind, resp)
       THEN /\ snd_result' = "True"
            /\ snd_pc' = "returned"
       ELSE IF snd_attempt < snd_retries
       THEN /\ snd_pc' = "sleep"
            /\ UNCHANGED snd_result
       ELSE /\ snd_result' = "False"
            /\ snd_pc' = "returned"
    /\ UNCHANGED <<snd_kind, snd_configured, snd_retries, snd_delay,
                   snd_attempt, snd_sleeps>>
    /\ UNCHANGED <<callVars, lockVars, runVars>>

SendAttempt == \E resp \in Responses : SendAttemptGiven(resp)

\* time.sleep(delay_seconds), then the next attempt
SendBackoff ==
    /\ snd_pc = "sleep"
    /\ snd_sleeps' = Append(snd_sleeps, BackoffDelay(snd_delay, snd_attempt))
    /\ snd_attempt' = snd_attempt + 1
    /\ snd_pc' = "attempt"
    /\ UNCHANGED <<snd_kind, snd_configured, snd_retries, snd_delay,
                   snd_requests, snd_failed, snd_result>>
    /\ UNCHANGED <<callVars, lockVars, runVars>>

----------------------------------------------------------------------------
(* The configured servers and the snapshots the providers hold.            *)

\* what the JSON files of the configs directory say, retain count apart: two
\* droplets of one DigitalOcean account, the name of one contained in the
\* name of the other, a Hetzner server, and a server whose "provider" field
\* names neither (load_configs takes the field as it is). The "enabled"
\* fields are "true", "false" or "unset" (the key is absent);
\* telegram_bot_token, telegram_chat_id and webhook_url say whether the
\* file gives a value that is no placeholder, webhook_payload whether it
\* gives payload templates of its own.
ServerKinds ==
    { [provider |-> "digitalocean", id |-> "d1", name |-> "web", api_token |-> "tok",
       telegram_enabled |-> "true", telegram_bot_token |-> TRUE, telegram_chat_id |-> TRUE,
       webhook_enabled |-> "false", webhook_url |-> FALSE, webhook_payload |-> FALSE],
      [provider |-> "digitalocean", id |-> "d2", name |-> "web2", api_token |-> "tok",
       telegram_enabled |-> "true", telegram_bot_token |-> TRUE, telegram_chat_id |-> FALSE,
       webhook_enabled |-> "true", webhook_url |-> TRUE, webhook_payload |-> TRUE],
      [provider |-> "hetzner", id |-> "h1", name |-> "db", api_token |-> "tok",
       telegram_enabled |-> "true", telegram_bot_token |-> TRUE, telegram_chat_id |-> TRUE,
       webhook_enabled |-> "true", webhook_url |-> TRUE, webhook_payload |-> FALSE],
      [provider |-> "other", id |-> "x1", name |-> "odd", api_token |-> "tok",
       telegram_enabled |-> "unset", telegram_bot_token |-> FALSE, telegram_chat_id |-> FALSE,
       webhook_enabled |-> "true", webhook_url |-> FALSE, webhook_payload |-> FALSE] }

\* the settings of snapshots.config that a pass reads: the [TELEGRAM] and
\* [WEBHOOK] enabled flags (defaults True and False), whether the global
\* bot token, chat id and webhook URL are set (absent here), and what
\* json.loads gives for the [WEBHOOK] payload templates: a JSON object (the
\* default), or valid JSON that is no object, as in
\* payload_success = ["{status}"]
DefaultConfig ==
    [telegram_enabled |-> TRUE, telegram_bot_token |-> FALSE, telegram_chat_id |-> FALSE,
     webhook_enabled |-> FALSE, webhook_url |-> FALSE, webhook_payload |-> "object"]

\* snapshots.config with the global credentials and URL set: the fallback
FallbackConfig ==
    [telegram_enabled |-> TRUE, telegram_bot_token |-> TRUE, telegram_chat_id |-> TRUE,
     webhook_enabled |-> TRUE, webhook_url |-> TRUE, webhook_payload |-> "object"]

Configs ==
    { DefaultConfig,
      [DefaultConfig EXCEPT !.webhook_payload = "not_object"],
      FallbackConfig }

\* a credential or URL as a ServerConfig holds it: "none" (None), the value
\* the file gave ("own"), or the value of snapshots.config ("global")
Own(given) == IF given THEN "own" ELSE "none"
Global(given) == IF given THEN "global" ELSE "none"

\* the mutant of LoadTelegram: enabled in the JSON file stays enabled
LoadTelegramAsWritten(k, cfg) ==
    CASE k.telegram_enabled = "true" ->
            IF k.telegram_bot_token /\ k.telegram_chat_id
            THEN [enabled |-> TRUE, bot_token |-> "own", chat_id |-> "own"]
            ELSE IF cfg.telegram_bot_token /\ cfg.telegram_chat_id
            THEN [enabled |-> TRUE, bot_token |-> "global", chat_id |-> "global"]
            ELSE [enabled |-> TRUE, bot_token |-> Own(k.telegram_bot_token),
                  chat_id |-> Own(k.telegram_chat_id)]
      [] k.telegram_enabled = "false" ->
            [enabled |-> FALSE, bot_token |-> Own(k.telegram_bot_token),
             chat_id |-> Own(k.telegram_chat_id)]
      [] OTHER ->
            IF cfg.telegram_enabled
            THEN [enabled |-> TRUE,
                  bot_token |-> IF k.telegram_bot_token THEN "own"
                                ELSE Global(cfg.telegram_bot_token),
                  chat_id |-> IF k.telegram_chat_id THEN "own"
                              ELSE Global(cfg.telegram_chat_id)]
            ELSE [enabled |-> FALSE, bot_token |-> Own(k.telegram_bot_token),
                  chat_id |-> Own(k.telegram_chat_id)]

\* load_configs, Telegram settings of one server: enabled in the JSON file
\* with both credentials, or with the global ones in their place, stays
\* enabled; enabled with neither is disabled; "enabled": false is disabled;
\* no "enabled" key takes the global flag and fills each missing credential
\* from the global one
LoadTelegram(k, cfg) ==
    CASE k.telegram_enabled = "true" ->
            IF k.telegram_bot_token /\ k.telegram_chat_id
            THEN [enabled |-> TRUE, bot_token |-> "own", chat_id |-> "own"]
            ELSE IF cfg.telegram_bot_token /\ cfg.telegram_chat_id
            THEN [enabled |-> TRUE, bot_token |-> "global", chat_id |-> "global"]
            ELSE [enabled |-> FALSE, bot_token |-> Own(k.telegram_bot_token),
                  chat_id |-> Own(k.telegram_chat_id)]
      [] k.telegram_enabled = "false" ->
            [enabled |-> FALSE, bot_token |-> Own(k.telegram_bot_token),
             chat_id |-> Own(k.telegram_chat_id)]
      [] OTHER ->
            IF cfg.telegram_enabled
            THEN [enabled |-> TRUE,
                  bot_token |-> IF k.telegram_bot_token THEN "own"
                                ELSE Global(cfg.telegram_bot_token),
                  chat_id |-> IF k.telegram_chat_id THEN "own"
                              ELSE Global(cfg.telegram_chat_id)]
            ELSE [enabled |-> FALSE, bot_token |-> Own(k.telegram_bot_token),
                  chat_id |-> Own(k.telegram_chat_id)]

\* load_configs, webhook settings of one server: the same with the URL
LoadWebhook(k, cfg) ==
    CASE k.webhook_enabled = "true" ->
            IF k.webhook_url THEN [enabled |-> TRUE, url |-> "own"]
            ELSE IF cfg.webhook_url THEN [enabled |-> TRUE, url |-> "global"]
            ELSE [enabled |-> FALSE, url |-> "none"]
      [] k.webhook_enabled = "false" -> [enabled |-> FALSE, url |-> Own(k.webhook_url)]
      [] OTHER ->
            IF cfg.webhook_enabled
            THEN [enabled |-> TRUE,
                  url |-> IF k.webhook_url THEN "own" ELSE Global(cfg.webhook_url)]
            ELSE [enabled |-> FALSE, url |-> Own(k.webhook_url)]

\* the ServerConfig load_configs builds from the file of kind k with
\* retain_last_snapshots = r, under the settings cfg
Server(k, r, cfg) ==
    [provider |-> k.provider, id |-> k.id, name |-> k.name, api_token |-> k.api_token,
     retain_last_snapshots |-> r,
     telegram_enabled |-> LoadTelegram(k, cfg).enabled,
     telegram_bot_token |-> LoadTelegram(k, cfg).bot_token,
     telegram_chat_id |-> LoadTelegram(k, cfg).chat_id,
     webhook_enabled |-> LoadWebhook(k, cfg).enabled,
     webhook_url |-> LoadWebhook(k, cfg).url,
     webhook_payload |-> k.webhook_payload]

\* "a in b" for the server names of the model
NameIn(a, b) == a = b \/ (a = "web" /\ b = "web2")

\* the first id of the snapshots a server has before the run
IdBase(id) == CASE id = "d1" -> 10 [] id = "d2" -> 20 [] id = "h1" -> 30 [] OTHER -> 40

\* the snapshots of server kind k that exist before the run, one for each
\* creation timestamp of stamps; their names are "<server name>-<timestamp>"
InitialSnaps(k, stamps) ==
    { [id |-> IdBase(k.id) + i, provider |-> k.provider, resource_id |-> k.id,
       name_of |-> k.name, created_at |-> stamps[i]] : i \in 1..Len(stamps) }

\* timestamps in the order the snapshots were taken
StampLists == {st \in SeqsUpTo(1..MaxTime, MaxLen) :
                  \A i \in 1..Len(st) : \A j \in 1..Len(st) : i < j => st[i] <= st[j]}

\* the snapshot a completed create action leaves at the provider
NewSnapshot(server, n) ==
    [id |-> 100 + n, provider |-> server.provider, resource_id |-> server.id,
     name_of |-> server.name, created_at |-> MaxTime + n]

----------------------------------------------------------------------------
(* load_configs: from the configuration files to self.servers.             *)

\* most files in self.config_paths
MaxFiles == 2

\* a file with nothing wrong: the key of a droplet, no "provider" field,
\* id, name, api_token and an integer retain count, no channel mentioned
PlainFile ==
    [key |-> "digitalocean_droplet", provider |-> "", id |-> "d1", name |-> "web",
     api_token |-> "tok", retain_last_snapshots |-> [kind |-> "int", val |-> 1],
     telegram_enabled |-> "unset", telegram_bot_token |-> FALSE, telegram_chat_id |-> FALSE,
     webhook_enabled |-> "unset", webhook_url |-> FALSE, webhook_payload |-> FALSE]

\* the values "retain_last_snapshots" may have in a file: absent, an
\* integer, a text that is no number
RetainValues ==
    {[kind |-> "missing", val |-> 0], [kind |-> "text", val |-> 0]}
    \cup {[kind |-> "int", val |-> n] : n \in -1..MaxRetain}

\* the files of the model: PlainFile with one thing changed in its required
\* part, or with the settings of one channel changed
ConfigFiles ==
    {[PlainFile EXCEPT !.key = k] : k \in {"digitalocean_droplet", "hetzner_cloud_server", "none"}}
    \cup {[PlainFile EXCEPT !.provider = pr] : pr \in {"digitalocean", "hetzner", "other"}}
    \cup {[PlainFile EXCEPT !.api_token = t] : t \in {"missing", ""}}
    \cup {[PlainFile EXCEPT !.retain_last_snapshots = r] : r \in RetainValues}
    \cup {[PlainFile EXCEPT !.telegram_enabled = e, !.telegram_bot_token = t,
                            !.telegram_chat_id = c] :
             e \in {"true", "false", "unset"}, t \in BOOLEAN, c \in BOOLEAN}
    \cup {[PlainFile EXCEPT !.webhook_enabled = e, !.webhook_url = u] :
             e \in {"true", "false", "unset"}, u \in BOOLEAN}

\* the settings of snapshots.config: DefaultConfig with the [TELEGRAM] part
\* or the [WEBHOOK] part changed
Settings ==
    {[DefaultConfig EXCEPT !.telegram_enabled = e, !.telegram_bot_token = t,
                           !.telegram_chat_id = c] :
        e \in BOOLEAN, t \in BOOLEAN, c \in BOOLEAN}
    \cup {[DefaultConfig EXCEPT !.webhook_enabled = e, !.webhook_url = u] :
             e \in BOOLEAN, u \in BOOLEAN}

\* provider: from the key of the file, replaced by a non-empty "provider"
\* field that differs from it
ProviderOf(f) ==
    LET from_key == IF f.key = "digitalocean_droplet" THEN "digitalocean" ELSE "hetzner"
    IN  IF f.provider # "" /\ f.provider # from_key THEN f.provider ELSE from_key

\* the file is skipped: neither key, a required field missing, or
\* int(server_data['retain_last_snapshots']) raises ValueError
Skipped(f) ==
    \/ f.key = "none"
    \/ f.api_token = "missing"
    \/ f.retain_last_snapshots.kind = "missing"
    \/ f.retain_last_snapshots.kind = "text"

\* the ServerConfig built from a file that is not skipped
LoadedServer(f, cfg) ==
    Server([f EXCEPT !.provider = ProviderOf(f)], f.retain_last_snapshots.val, cfg)

LoadIdle ==
    /\ ld_pc = "idle"
    /\ ld_settings = DefaultConfig
    /\ ld_files = <<>>
    /\ ld_i = 0
    /\ ld_servers = <<>>

LoadInit ==
    /\ ld_pc = "loading"
    /\ ld_settings \in Settings
    /\ ld_files \in SeqsUpTo(ConfigFiles, MaxFiles) \ {<<>>}
    /\ ld_i = 1
    /\ ld_servers = <<>>

\* one round of "for path in self.config_paths": continue, or
\* servers.append(server_config)
LoadConfigFile ==
    /\ ld_pc = "loading"
    /\ ld_i <= Len(ld_files)
    /\ ld_servers' = IF Skipped(ld_files[ld_i]) THEN ld_servers
                     ELSE Append(ld_servers, LoadedServer(ld_files[ld_i], ld_settings))
    /\ ld_i' = ld_i + 1
    /\ UNCHANGED <<ld_pc, ld_settings, ld_files>>
    /\ UNCHANGED <<selVars, tplVars, lockVars, sndVars, runVars>>

\* return servers
LoadConfigsReturn ==
    /\ ld_pc = "loading"
    /\ ld_i > Len(ld_files)
    /\ ld_pc' = "returned"
    /\ UNCHANGED <<ld_settings, ld_files, ld_i, ld_servers>>
    /\ UNCHANGED <<selVars, tplVars, lockVars, sndVars, runVars>>

CallIdle == SelIdle /\ TplIdle /\ LoadIdle

----------------------------------------------------------------------------
(* Listing: get_digitalocean_snapshots and get_hetzner_snapshots.          *)

\* the filter of each listing function
Matches(server, snap) ==
    IF server.provider = "digitalocean"
    THEN snap.resource_id = server.id \/ NameIn(server.name, snap.name_of)
    ELSE NameIn(server.name, snap.name_of)

RECURSIVE ById(_)
ById(S) ==
    IF S = {} THEN <<>>
    ELSE LET m == CHOOSE x \in S : \A y \in S : x.id <= y.id
         IN  <<m>> \o ById(S \ {m})

\* what the provider's listing endpoint pages through for this server's token
Account(server, held) == ById({x \in held : x.provider = server.provider})

\* number of page requests a listing makes when none fails
NumPages(n) == IF n = 0 THEN 1 ELSE (n + PerPage - 1) \div PerPage

RECURSIVE FilterSeq(_, _)
FilterSeq(server, s) ==
    IF s = <<>> THEN <<>>
    ELSE IF Matches(server, Head(s))
         THEN <<Head(s)>> \o FilterSeq(server, Tail(s))
         ELSE FilterSeq(server, Tail(s))

\* get_snapshots: the matching records of the pages fetched before request
\* number failPage failed (failPage = 0: no request failed); an unknown
\* provider gives the empty list
ListSnapshots(server, held, failPage) ==
    IF server.provider \notin {"digitalocean", "hetzner"} THEN <<>>
    ELSE LET acct == Account(server, held)
             upto == IF failPage = 0 THEN Len(acct)
                     ELSE Min(Len(acct), (failPage - 1) * PerPage)
         IN  FilterSeq(server, SubSeq(acct, 1, upto))

\* the page requests that can fail
FailPages(server, held) ==
    IF server.provider \notin {"digitalocean", "hetzner"} THEN {0}
    ELSE 0..NumPages(Len(Account(server, held)))

----------------------------------------------------------------------------
(* SnapshotManager.run and manage_snapshots_for_server.                    *)

CurrentServer == servers[idx]

PassIdle ==
    /\ snapshots = <<>>
    /\ to_delete = <<>>
    /\ snapshot_name = <<>>
    /\ elapsed = 0
    /\ poll_reply = "none"
    /\ del_i = 0
    /\ del_errors = 0
    /\ del_reply = "none"
    /\ total_snapshots = 0
    /\ status_lines = <<>>
    /\ steps = <<>>
    /\ delete_requests = <<>>
    /\ create_outcome = "none"
    /\ lists_failed = {}
    /\ tg_result = "none"
    /\ wh_result = "none"
    /\ counted = "none"

RunIdle ==
    /\ servers = <<>>
    /\ config = DefaultConfig
    /\ cloud = {}
    /\ clock = 0
    /\ pc = "off"
    /\ idx = 0
    /\ success_count = 0
    /\ failure_count = 0
    /\ exit_code = -1
    /\ started = <<>>
    /\ results = <<>>
    /\ PassIdle

LoopInit ==
    /\ clock = 0
    /\ pc = "loop"
    /\ idx = 1
    /\ success_count = 0
    /\ failure_count = 0
    /\ exit_code = -1
    /\ started = <<>>
    /\ results = <<>>
    /\ PassIdle

\* run() over one server of any kind and retain count, with any bounded
\* list of snapshots of its own, under the default snapshots.config; every
\* other server kind has one snapshot
PassInit ==
    /\ \E k \in ServerKinds : \E r \in -1..MaxRetain : \E st \in StampLists :
        /\ servers = <<Server(k, r, DefaultConfig)>>
        /\ cloud = InitialSnaps(k, st)
                   \cup UNION {InitialSnaps(o, <<1>>) : o \in ServerKinds \ {k}}
    /\ config = DefaultConfig
    /\ LoopInit

\* the retain count each server kind has in the runs over several servers
RetainOf(id) == CASE id = "d1" -> 1 [] id = "d2" -> 0 [] id = "h1" -> 2 [] OTHER -> 1

\* run() over one to NumServers servers, each from a file of its own and
\* with one snapshot
RunInit ==
    /\ config \in Configs
    /\ servers \in {sv \in SeqsUpTo({Server(k, RetainOf(k.id), config) : k \in ServerKinds},
                                     NumServers) :
                     /\ Len(sv) >= 1
                     /\ \A i, j \in 1..Len(sv) : i # j => sv[i] # sv[j]}
    /\ cloud = UNION {InitialSnaps(k, <<1>>) : k \in ServerKinds}
    /\ LoopInit

\* most consecutive passes for one server
NumPasses == 2

\* consecutive passes for one server and nothing else changing the provider's
\* snapshots: the server is entry 1..NumPasses of the loop of run(); the
\* other servers of the account have one snapshot each, of any age
SteadyInit ==
    /\ \E k \in ServerKinds : \E r \in 0..MaxRetain : \E st \in StampLists :
       \E ot \in 1..MaxTime :
        /\ servers = [i \in 1..NumPasses |-> Server(k, r, DefaultConfig)]
        /\ cloud = InitialSnaps(k, st)
                   \cup UNION {InitialSnaps(o, <<ot>>) : o \in ServerKinds \ {k}}
    /\ config = DefaultConfig
    /\ LoopInit

\* the variables a pass step leaves alone besides those it names
loopFrame == <<callVars, lockVars, servers, config, idx, success_count, failure_count,
               exit_code>>
passFrame == <<loopFrame, started, results>>

\* for idx, server in enumerate(self.servers): the call of
\* manage_snapshots_for_server, whose locals start fresh
StartPass ==
    /\ pc = "loop"
    /\ idx <= Len(servers)
    /\ pc' = "list"
    /\ snapshots' = <<>>
    /\ to_delete' = <<>>
    /\ snapshot_name' = <<>>
    /\ elapsed' = 0
    /\ poll_reply' = "none"
    /\ del_i' = 0
    /\ del_errors' = 0
    /\ del_reply' = "none"
    /\ total_snapshots' = 0
    /\ status_lines' = <<>>
    /\ steps' = <<>>
    /\ delete_requests' = <<>>
    /\ create_outcome' = "none"
    /\ lists_failed' = {}
    /\ tg_result' = "none"
    /\ wh_result' = "none"
    /\ counted' = "none"
    /\ started' = Append(started, idx)
    /\ UNCHANGED <<loopFrame, results, sndVars, cloud, clock>>

\* step 1: snapshots = self.get_snapshots(server)
ListStep ==
    /\ pc = "list"
    /\ \E failPage \in FailPages(CurrentServer, cloud) :
        /\ snapshots' = ListSnapshots(CurrentServer, cloud, failPage)
        /\ lists_failed' = IF failPage # 0 THEN {"list"} ELSE {}
    /\ steps' = Append(steps, "list")
    /\ pc' = "select"
    /\ UNCHANGED <<passFrame, sndVars, cloud, clock, to_delete, snapshot_name, elapsed, poll_reply,
                   del_i, del_errors, del_reply, total_snapshots, status_lines, delete_requests,
                   create_outcome, tg_result, wh_result, counted>>

\* step 2: to_delete = self.identify_snapshots_to_delete(...), which sorts
\* the list it is given
SelectStep ==
    /\ pc = "select"
    /\ to_delete' = IdentifySnapshotsToDelete(snapshots, CurrentServer.retain_last_snapshots)
    /\ snapshots' = SortNewestFirst(snapshots)
    /\ steps' = Append(steps, "select")
    /\ pc' = "create"
    /\ UNCHANGED <<passFrame, sndVars, cloud, clock, snapshot_name, elapsed, poll_reply,
                   del_i, del_errors, del_reply, total_snapshots, status_lines, delete_requests,
                   create_outcome, lists_failed, tg_result, wh_result, counted>>

\* what the create request can give: a RequestException or error status, a
\* response without the action id (Hetzner: or without the image id), or an
\* action to poll
CreateReplies == {"request_error", "no_action_id", "accepted"}

\* the mutant of CreateStep: a failed create request is not caught
CreateStepRaising ==
    /\ pc = "create"
    /\ steps' = Append(steps, "create")
    /\ IF CurrentServer.provider \notin {"digitalocean", "hetzner"}
       THEN /\ create_outcome' = "unknown_provider"
            /\ pc' = "delete"
       ELSE \E reply \in CreateReplies :
            IF reply = "accepted"
            THEN /\ pc' = "poll"
                 /\ UNCHANGED create_outcome
            ELSE /\ create_outcome' = reply
                 /\ pc' = IF reply = "request_error" THEN "raised" ELSE "delete"
    /\ elapsed' = 0
    /\ poll_reply' = "none"
    /\ snapshot_name' = <<>>
    /\ UNCHANGED <<passFrame, sndVars, cloud, clock, snapshots, to_delete,
                   del_i, del_errors, del_reply, total_snapshots, status_lines, delete_requests,
                   lists_failed, tg_result, wh_result, counted>>

\* step 3, create_snapshot up to the polling loop; an unknown provider
\* returns None at once
CreateStep ==
    /\ pc = "create"
    /\ steps' = Append(steps, "create")
    /\ IF CurrentServer.provider \notin {"digitalocean", "hetzner"}
       THEN /\ create_outcome' = "unknown_provider"
            /\ pc' = "delete"
       ELSE \E reply \in CreateReplies :
            IF reply = "accepted"
            THEN /\ pc' = "poll"
                 /\ UNCHANGED create_outcome
            ELSE /\ create_outcome' = reply
                 /\ pc' = "delete"
    /\ elapsed' = 0
    /\ poll_reply' = "none"
    /\ snapshot_name' = <<>>
    /\ UNCHANGED <<passFrame, sndVars, cloud, clock, snapshots, to_delete,
                   del_i, del_errors, del_reply, total_snapshots, status_lines, delete_requests,
                   lists_failed, tg_result, wh_result, counted>>

\* the statuses the two action endpoints give, a failed poll request, and a
\* response whose JSON is no object (data.get raises AttributeError)
PollReplies == {"in-progress", "completed", "errored", "running", "success", "error",
                "request_error", "malformed"}

CompletedStatus(provider) == IF provider = "digitalocean" THEN "completed" ELSE "success"
ErroredStatus(provider) == IF provider = "digitalocean" THEN "errored" ELSE "error"

\* the mutant of PollStep: a failed poll request ends the polling
PollStepAbortsOnError ==
    /\ pc = "poll"
    /\ elapsed < SNAPSHOT_CREATION_TIMEOUT
    /\ steps' = IF steps[Len(steps)] = "poll" THEN steps ELSE Append(steps, "poll")
    /\ \E reply \in PollReplies :
        /\ poll_reply' = reply
        /\ IF reply = CompletedStatus(CurrentServer.provider)
           THEN /\ create_outcome' = "completed"
                /\ snapshot_name' = <<CurrentServer.name, MaxTime + clock + 1>>
                /\ cloud' = cloud \cup {NewSnapshot(CurrentServer, clock + 1)}
                /\ clock' = clock + 1
                /\ pc' = "delete"
                /\ elapsed' = 0
           ELSE IF reply = ErroredStatus(CurrentServer.provider)
           THEN /\ create_outcome' = "errored"
                /\ pc' = "delete"
                /\ elapsed' = 0
                /\ UNCHANGED <<snapshot_name, cloud, clock>>
           ELSE IF reply = "malformed"
           THEN /\ create_outcome' = "unexpected_error"
                /\ pc' = "delete"
                /\ elapsed' = 0
                /\ UNCHANGED <<snapshot_name, cloud, clock>>
           ELSE IF reply = "request_error"
           THEN /\ create_outcome' = "request_error"
                /\ pc' = "delete"
                /\ elapsed' = 0
                /\ UNCHANGED <<snapshot_name, cloud, clock>>
           ELSE /\ elapsed' = elapsed + PollSleep
                /\ UNCHANGED <<create_outcome, snapshot_name, cloud, clock, pc>>
    /\ UNCHANGED <<passFrame, sndVars, snapshots, to_delete,
                   del_i, del_errors, del_reply, total_snapshots, status_lines, delete_requests,
                   lists_failed, tg_result, wh_result, counted>>

\* one iteration of _wait_for_digitalocean_action / _wait_for_hetzner_action
\* while time.time() - start_time < timeout: the terminal statuses return,
\* anything else sleeps 5 seconds and polls again. create_snapshot returns
\* the name on the completed status and None on the errored one; what the
\* loop does not catch is caught by create_snapshot, which returns None.
PollStep ==
    /\ pc = "poll"
    /\ elapsed < SNAPSHOT_CREATION_TIMEOUT
    /\ steps' = IF steps[Len(steps)] = "poll" THEN steps ELSE Append(steps, "poll")
    /\ \E reply \in PollReplies :
        /\ poll_reply' = reply
        /\ IF reply = CompletedStatus(CurrentServer.provider)
           THEN /\ create_outcome' = "completed"
                /\ snapshot_name' = <<CurrentServer.name, MaxTime + clock + 1>>
                /\ cloud' = cloud \cup {NewSnapshot(CurrentServer, clock + 1)}
                /\ clock' = clock + 1
                /\ pc' = "delete"
                /\ elapsed' = 0
           ELSE IF reply = ErroredStatus(CurrentServer.provider)
           THEN /\ create_outcome' = "errored"
                /\ pc' = "delete"
                /\ elapsed' = 0
                /\ UNCHANGED <<snapshot_name, cloud, clock>>
           ELSE IF reply = "malformed"
           THEN /\ create_outcome' = "unexpected_error"
                /\ pc' = "delete"
                /\ elapsed' = 0
                /\ UNCHANGED <<snapshot_name, cloud, clock>>
           ELSE /\ elapsed' = elapsed + PollSleep
                /\ UNCHANGED <<create_outcome, snapshot_name, cloud, clock, pc>>
    /\ UNCHANGED <<passFrame, sndVars, snapshots, to_delete,
                   del_i, del_errors, del_reply, total_snapshots, status_lines, delete_requests,
                   lists_failed, tg_result, wh_result, counted>>

\* the mutant of PollTimeout: the name is returned all the same
PollTimeoutNamed ==
    /\ pc = "poll"
    /\ elapsed >= SNAPSHOT_CREATION_TIMEOUT
    /\ create_outcome' = "timeout"
    /\ snapshot_name' = <<CurrentServer.name, MaxTime + clock + 1>>
    /\ pc' = "delete"
    /\ elapsed' = 0
    /\ poll_reply' = "none"
    /\ UNCHANGED <<passFrame, sndVars, cloud, clock, snapshots, to_delete,
                   del_i, del_errors, del_reply, total_snapshots, status_lines, steps,
                   delete_requests, lists_failed, tg_result, wh_result, counted>>

\* the mutant of PollTimeout: polling starts over when the time is up
PollTimeoutRestarts ==
    /\ pc = "poll"
    /\ elapsed >= SNAPSHOT_CREATION_TIMEOUT
    /\ elapsed' = 0
    /\ poll_reply' = "none"
    /\ UNCHANGED <<passFrame, sndVars, cloud, clock, snapshots, to_delete, snapshot_name,
                   del_i, del_errors, del_reply, total_snapshots, status_lines, steps, delete_requests,
                   create_outcome, pc, lists_failed, tg_result, wh_result, counted>>

\* the polling loop ends on the timeout: "timeout" is returned and
\* create_snapshot returns None
PollTimeout ==
    /\ pc = "poll"
    /\ elapsed >= SNAPSHOT_CREATION_TIMEOUT
    /\ create_outcome' = "timeout"
    /\ pc' = "delete"
    /\ elapsed' = 0
    /\ poll_reply' = "none"
    /\ UNCHANGED <<passFrame, sndVars, cloud, clock, snapshots, to_delete, snapshot_name,
                   del_i, del_errors, del_reply, total_snapshots, status_lines, steps, delete_requests,
                   lists_failed, tg_result, wh_result, counted>>

\* the mutants of DeleteTargets: the candidates drawn from a listing made
\* after creation, and the deletion left out when creation gave no name
DeleteTargetsRelisted ==
    IdentifySnapshotsToDelete(ListSnapshots(CurrentServer, cloud, 0),
                              CurrentServer.retain_last_snapshots)

DeleteTargetsIfCreated == IF snapshot_name # <<>> THEN to_delete ELSE <<>>

\* the list step 4 works on: if to_delete: self.delete_snapshots(server, to_delete)
DeleteTargets == to_delete

\* the mutant of AfterDelete: the loop left after its first request
AfterDeleteFirst(i, n) == "relist"

\* for idx, snap in enumerate(snapshots, 1): where the pass is after request
\* i of n
AfterDelete(i, n) == IF i = n THEN "relist" ELSE "delete"

\* step 4 with nothing to do: to_delete is empty, or delete_snapshots does
\* not know the provider
DeleteNothing ==
    /\ pc = "delete"
    /\ DeleteTargets = <<>> \/ CurrentServer.provider \notin {"digitalocean", "hetzner"}
    /\ pc' = "relist"
    /\ UNCHANGED <<passFrame, sndVars, cloud, clock, snapshots, to_delete, snapshot_name,
                   elapsed, poll_reply, del_i, del_errors, del_reply, total_snapshots, status_lines, steps, delete_requests,
                   create_outcome, lists_failed, tg_result, wh_result, counted>>

\* what a DELETE request can give: 204, 404 (the snapshot is gone already,
\* removed by somebody else since the listing), another status, an exception
DeleteReplies == {"204", "404", "500", "request_error"}

\* how the loop logs the outcome of a request: 204 "Deleted successfully",
\* 404 the warning "Snapshot not found (likely already deleted)", anything
\* else an error
DeleteLogLevel(reply) ==
    CASE reply = "204" -> "info" [] reply = "404" -> "warning" [] OTHER -> "error"

\* the mutant of DeleteStep: a failed request ends the loop
DeleteStepAborting ==
    /\ pc = "delete"
    /\ DeleteTargets # <<>>
    /\ CurrentServer.provider \in {"digitalocean", "hetzner"}
    /\ del_i < Len(DeleteTargets)
    /\ LET snap == DeleteTargets[del_i + 1]
       IN  /\ delete_requests' = Append(delete_requests, snap.id)
           /\ \E reply \in DeleteReplies :
                /\ cloud' = IF reply \in {"204", "404"} THEN cloud \ {snap} ELSE cloud
                /\ del_errors' = del_errors + (IF DeleteLogLevel(reply) = "error" THEN 1 ELSE 0)
                /\ pc' = IF DeleteLogLevel(reply) = "error" THEN "relist"
                         ELSE AfterDelete(del_i + 1, Len(DeleteTargets))
                /\ del_reply' = IF pc' = "delete" THEN reply ELSE "none"
    /\ steps' = Append(steps, "delete")
    /\ del_i' = del_i + 1
    /\ UNCHANGED <<passFrame, sndVars, clock, snapshots, to_delete, snapshot_name,
                   elapsed, poll_reply, total_snapshots, status_lines,
                   create_outcome, lists_failed, tg_result, wh_result, counted>>

\* step 4, one iteration of the loop of delete_digitalocean_snapshots /
\* delete_hetzner_snapshots: every outcome is logged and the loop goes on
DeleteStep ==
    /\ pc = "delete"
    /\ DeleteTargets # <<>>
    /\ CurrentServer.provider \in {"digitalocean", "hetzner"}
    /\ del_i < Len(DeleteTargets)
    /\ LET snap == DeleteTargets[del_i + 1]
       IN  /\ delete_requests' = Append(delete_requests, snap.id)
           /\ \E reply \in DeleteReplies :
                /\ cloud' = IF reply \in {"204", "404"} THEN cloud \ {snap} ELSE cloud
                /\ del_errors' = del_errors + (IF DeleteLogLevel(reply) = "error" THEN 1 ELSE 0)
                /\ del_reply' = IF del_i + 1 < Len(DeleteTargets) THEN reply ELSE "none"
    /\ steps' = Append(steps, "delete")
    /\ del_i' = del_i + 1
    /\ pc' = AfterDelete(del_i + 1, Len(DeleteTargets))
    /\ UNCHANGED <<passFrame, sndVars, clock, snapshots, to_delete, snapshot_name,
                   elapsed, poll_reply, total_snapshots, status_lines,
                   create_outcome, lists_failed, tg_result, wh_result, counted>>

\* step 5: updated_snapshots = self.get_snapshots(server);
\* total_snapshots = len(updated_snapshots)
RelistStep ==
    /\ pc = "relist"
    /\ \E failPage \in FailPages(CurrentServer, cloud) :
        /\ total_snapshots' = Len(ListSnapshots(CurrentServer, cloud, failPage))
        /\ lists_failed' = IF failPage # 0 THEN lists_failed \cup {"relist"}
                           ELSE lists_failed
    /\ steps' = Append(steps, "relist")
    /\ pc' = "status"
    /\ UNCHANGED <<passFrame, sndVars, cloud, clock, snapshots, to_delete, snapshot_name,
                   elapsed, poll_reply, del_i, del_errors, del_reply, status_lines, delete_requests,
                   create_outcome, tg_result, wh_result, counted>>

\* the mutant of FinalStatus: the status does not look at the name
FinalStatusAlways(name) == "success"

\* status = "success" if snapshot_name else "failure"
FinalStatus(name) == IF name # <<>> THEN "success" ELSE "failure"

\* the status, and the FINAL_STATUS line and notification data of
\* write_final_status
StatusStep ==
    /\ pc = "status"
    /\ status_lines' = Append(status_lines,
            [status |-> FinalStatus(snapshot_name),
             snapshot_name |-> IF snapshot_name # <<>> THEN snapshot_name ELSE <<"none">>,
             total_snapshots |-> total_snapshots])
    /\ results' = Append(results, FinalStatus(snapshot_name))
    /\ pc' = "telegram"
    /\ UNCHANGED <<loopFrame, started, sndVars, cloud, clock, snapshots, to_delete,
                   snapshot_name, elapsed, poll_reply, del_i, del_errors, del_reply, total_snapshots, steps, delete_requests,
                   create_outcome, lists_failed, tg_result, wh_result, counted>>

\* the pass variables the notification steps leave alone
notifyFrame == <<passFrame, cloud, clock, snapshots, to_delete, snapshot_name, elapsed, poll_reply,
                 del_i, del_errors, del_reply, total_snapshots, status_lines, steps, delete_requests,
                 create_outcome, lists_failed, counted>>

sndReset ==
    /\ snd_pc' = "idle"
    /\ snd_kind' = "none"
    /\ snd_configured' = FALSE
    /\ snd_retries' = 0
    /\ snd_delay' = 0
    /\ snd_attempt' = 0
    /\ snd_requests' = 0
    /\ snd_failed' = 0
    /\ snd_sleeps' = <<>>
    /\ snd_result' = "none"

sndCall(kind, retries, delay) ==
    /\ snd_pc' = "entry"
    /\ snd_kind' = kind
    /\ snd_configured' = TRUE
    /\ snd_retries' = retries
    /\ snd_delay' = delay
    /\ snd_attempt' = 0
    /\ snd_requests' = 0
    /\ snd_failed' = 0
    /\ snd_sleeps' = <<>>
    /\ snd_result' = "none"

\* the credentials write_final_status settles on: the server's when it has
\* both, else the global ones when both are set
TelegramToUse(server) ==
    /\ server.telegram_enabled
    /\ \/ server.telegram_bot_token # "none" /\ server.telegram_chat_id # "none"
       \/ config.telegram_bot_token /\ config.telegram_chat_id

\* the mutant of TelegramStep: the sender is called whenever the channel is
\* enabled
TelegramStepUnchecked ==
    /\ pc = "telegram"
    /\ IF CurrentServer.telegram_enabled
       THEN /\ sndCall("telegram", TELEGRAM_RETRIES, TELEGRAM_BASE_DELAY_BETWEEN_RETRIES)
            /\ pc' = "telegram_send"
            /\ UNCHANGED tg_result
       ELSE /\ tg_result' = "skipped"
            /\ pc' = "webhook"
            /\ UNCHANGED sndVars
    /\ UNCHANGED <<notifyFrame, wh_result>>

\* write_final_status, Telegram part: the sender is called when the channel
\* is enabled and the server's or the global credentials exist
TelegramStep ==
    /\ pc = "telegram"
    /\ IF TelegramToUse(CurrentServer)
       THEN /\ sndCall("telegram", TELEGRAM_RETRIES, TELEGRAM_BASE_DELAY_BETWEEN_RETRIES)
            /\ pc' = "telegram_send"
            /\ UNCHANGED tg_result
       ELSE /\ tg_result' = "skipped"
            /\ pc' = "webhook"
            /\ UNCHANGED sndVars
    /\ UNCHANGED <<notifyFrame, wh_result>>

\* send_telegram_notification has returned
TelegramReturn ==
    /\ pc = "telegram_send"
    /\ snd_pc = "returned"
    /\ tg_result' = snd_result
    /\ sndReset
    /\ pc' = "webhook"
    /\ UNCHANGED <<notifyFrame, wh_result>>

\* the URL write_final_status settles on
WebhookUrlToUse(server) ==
    server.webhook_enabled /\ (server.webhook_url # "none" \/ config.webhook_url)

\* the payload template in use is the global one and json.loads gave
\* something that is no dict: replace_template_variables_dict calls .items()
\* on it, and only json.JSONDecodeError is caught there
GlobalPayloadBreaks(server) ==
    ~server.webhook_payload /\ config.webhook_payload = "not_object"

\* the mutant of WebhookStep: the sender is set off and not waited for
WebhookStepAsync ==
    /\ pc = "webhook"
    /\ ~(WebhookUrlToUse(CurrentServer) /\ GlobalPayloadBreaks(CurrentServer))
    /\ IF WebhookUrlToUse(CurrentServer)
       THEN /\ sndCall("webhook", WEBHOOK_RETRIES, WEBHOOK_BASE_DELAY_BETWEEN_RETRIES)
            /\ wh_result' = "True"
       ELSE /\ wh_result' = "skipped"
            /\ UNCHANGED sndVars
    /\ pc' = "returned"
    /\ UNCHANGED <<notifyFrame, tg_result>>

\* write_final_status, webhook part: no URL, no call; else the payload is
\* built and send_webhook_notification called
WebhookStep ==
    /\ pc = "webhook"
    /\ ~(WebhookUrlToUse(CurrentServer) /\ GlobalPayloadBreaks(CurrentServer))
    /\ IF WebhookUrlToUse(CurrentServer)
       THEN /\ sndCall("webhook", WEBHOOK_RETRIES, WEBHOOK_BASE_DELAY_BETWEEN_RETRIES)
            /\ pc' = "webhook_send"
            /\ UNCHANGED wh_result
       ELSE /\ wh_result' = "skipped"
            /\ pc' = "returned"
            /\ UNCHANGED sndVars
    /\ UNCHANGED <<notifyFrame, tg_result>>

\* write_final_status, webhook part: building the payload raises
\* AttributeError, which leaves manage_snapshots_for_server
WebhookPayloadRaises ==
    /\ pc = "webhook"
    /\ WebhookUrlToUse(CurrentServer)
    /\ GlobalPayloadBreaks(CurrentServer)
    /\ pc' = "raised"
    /\ UNCHANGED <<notifyFrame, sndVars, tg_result, wh_result>>

\* the mutant of WebhookReturn: a delivery that failed raises
WebhookReturnRaising ==
    /\ pc = "webhook_send"
    /\ snd_pc = "returned"
    /\ wh_result' = snd_result
    /\ sndReset
    /\ pc' = IF snd_result = "False" THEN "raised" ELSE "returned"
    /\ UNCHANGED <<notifyFrame, tg_result>>

\* send_webhook_notification has returned, and with it the pass
WebhookReturn ==
    /\ pc = "webhook_send"
    /\ snd_pc = "returned"
    /\ wh_result' = snd_result
    /\ sndReset
    /\ pc' = "returned"
    /\ UNCHANGED <<notifyFrame, tg_result>>

\* the variables run() leaves alone besides those it names
runFrame == <<callVars, lockVars, sndVars, servers, config, cloud, clock, started, results,
              snapshots,
              to_delete, snapshot_name, elapsed, poll_reply, del_i, del_errors, del_reply, total_snapshots, status_lines,
              steps, delete_requests, create_outcome, lists_failed, tg_result, wh_result>>

\* run(): manage_snapshots_for_server returned: success_count += 1, and the
\* sleep when this was not the last server
PassReturns ==
    /\ pc = "returned"
    /\ success_count' = success_count + 1
    /\ counted' = "success"
    /\ IF idx < Len(servers)
       THEN /\ pc' = "sleep"
            /\ UNCHANGED idx
       ELSE /\ pc' = "loop"
            /\ idx' = idx + 1
    /\ UNCHANGED <<runFrame, failure_count, exit_code>>

\* time.sleep(DELAY_BETWEEN_SERVERS), then the next server
SleepBetweenServers ==
    /\ pc = "sleep"
    /\ idx' = idx + 1
    /\ pc' = "loop"
    /\ UNCHANGED <<runFrame, success_count, failure_count, exit_code, counted>>

\* the mutant of PassRaises: the exception ends the run
PassRaisesAborts ==
    /\ pc = "raised"
    /\ failure_count' = failure_count + 1
    /\ counted' = "failure"
    /\ exit_code' = 1
    /\ pc' = "exited"
    /\ UNCHANGED <<runFrame, success_count, idx>>

\* run(): except Exception: failure_count += 1, then the next server
PassRaises ==
    /\ pc = "raised"
    /\ failure_count' = failure_count + 1
    /\ counted' = "failure"
    /\ idx' = idx + 1
    /\ pc' = "loop"
    /\ UNCHANGED <<runFrame, success_count, exit_code>>

\* the mutant of Summary: any failure gives exit code 1
SummaryAnyFailureIsTotal ==
    /\ pc = "loop"
    /\ idx > Len(servers)
    /\ exit_code' = IF failure_count > 0 THEN 1 ELSE 0
    /\ pc' = "exited"
    /\ UNCHANGED <<runFrame, idx, success_count, failure_count, counted>>

\* after the loop: the summary, sys.exit(1) when all failed, sys.exit(2)
\* when some did, and a normal return (exit code 0) otherwise
Summary ==
    /\ pc = "loop"
    /\ idx > Len(servers)
    /\ exit_code' = IF failure_count > 0
                    THEN (IF success_count = 0 THEN 1 ELSE 2)
                    ELSE 0
    /\ pc' = "exited"
    /\ UNCHANGED <<runFrame, idx, success_count, failure_count, counted>>

RunNext ==
    \/ StartPass
    \/ ListStep
    \/ SelectStep
    \/ CreateStep
    \/ PollStep
    \/ PollTimeout
    \/ DeleteNothing
    \/ DeleteStep
    \/ RelistStep
    \/ StatusStep
    \/ TelegramStep
    \/ SendEnter
    \/ SendAttempt
    \/ SendBackoff
    \/ TelegramReturn
    \/ WebhookStep
    \/ WebhookPayloadRaises
    \/ WebhookReturn
    \/ PassReturns
    \/ SleepBetweenServers
    \/ PassRaises
    \/ Summary

----------------------------------------------------------------------------
(* Claims about the retention selector (SpecSelect).                       *)

\* the snapshots of the argument that the call did not return
SelKept == {s \in Range(sel_arg) : s \notin Range(sel_result)}

\* the count and membership part of C1: the call returns max(0, |S| - r)
\* distinct snapshots of S and keeps min(r, |S|), none of them older than a
\* snapshot it did not keep
SelCountAndKept ==
    /\ Len(sel_result) = Max(0, Len(sel_arg) - sel_retain)
    /\ Range(sel_result) \subseteq Range(sel_arg)
    /\ Cardinality(Range(sel_result)) = Len(sel_result)
    /\ Cardinality(SelKept) = Min(sel_retain, Len(sel_arg))
    /\ \A k \in SelKept : \A o \in Range(sel_arg) \ SelKept :
            k.created_at >= o.created_at

\* C1 as stated: for retain r >= 0 the call returns exactly max(0, |S| - r)
\* snapshots, each strictly older than every kept snapshot, and the kept
\* ones are the r most recent, also when timestamps repeat.
C1_StrictlyOlder ==
    (sel_pc = "returned" /\ sel_retain >= 0) =>
        /\ SelCountAndKept
        /\ \A d \in Range(sel_result) : \A k \in SelKept :
                d.created_at < k.created_at

\* C1 as amended: for retain r >= 0 the call returns exactly max(0, |S| - r)
\* snapshots, none of them newer than any kept snapshot (older or of the
\* same timestamp), and the kept ones are r most recent snapshots.
C1_NeverNewer ==
    (sel_pc = "returned" /\ sel_retain >= 0) =>
        /\ SelCountAndKept
        /\ \A d \in Range(sel_result) : \A k \in SelKept :
                d.created_at <= k.created_at

\* C1's case: a call that kept some snapshots and returned others, two of
\* them of the same timestamp on either side of the cut
C1_Witness ==
    /\ sel_pc = "returned"
    /\ sel_retain >= 1
    /\ \E d \in Range(sel_result) : \E k \in SelKept : d.created_at = k.created_at
    /\ \E d \in Range(sel_result) : \E k \in SelKept : d.created_at < k.created_at

\* C31: the call leaves the list it was given as it was, same elements in
\* the same order; what it returns is a function of its arguments; with
\* retain 0 it returns every snapshot and with retain >= |S| none.
C31_Pure ==
    sel_pc = "returned" =>
        /\ sel_snapshots = sel_arg
        /\ sel_result = IdentifySnapshotsToDelete(sel_arg, sel_retain)
        /\ sel_retain = 0 => Range(sel_result) = Range(sel_arg) /\ Len(sel_result) = Len(sel_arg)
        /\ sel_retain >= Len(sel_arg) => sel_result = <<>>

----------------------------------------------------------------------------
(* Claims about template substitution (SpecTemplate).                      *)

\* a placeholder of the vocabulary occurs in the text
HasPlaceholder(text) ==
    \E i \in 1..Len(text) :
        \/ StartsWith(SubSeq(text, i, Len(text)), PhServerName)
        \/ StartsWith(SubSeq(text, i, Len(text)), PhHostname)

\* C21: the text replace_template_variables returns for a template made of
\* placeholders of the vocabulary and letters holds no placeholder, whatever
\* the values of the placeholders are.
C21_NoUnresolved ==
    tpl_pc = "returned" => ~HasPlaceholder(tpl_result)

\* every string of a payload value replaced, at any depth of dicts and lists
RECURSIVE DeepReplace(_, _)
DeepReplace(value, values) ==
    CASE value.kind = "str" -> StrNode(ReplaceTemplateVariables(value.val, values))
      [] value.kind = "list" ->
            ListNode([i \in 1..Len(value.val) |-> DeepReplace(value.val[i], values)])
      [] value.kind = "dict" ->
            DictNode([i \in 1..Len(value.val) |->
                        Item(value.val[i].key, DeepReplace(value.val[i].node, values))])
      [] OTHER -> value

\* C29: what replace_template_variables_dict returns is the payload template
\* with every string value at any depth replaced, and the numbers, the keys
\* and the nesting as they were.
C29_Recursive ==
    tpl_pc = "returned_dict" => tpl_result = DeepReplace(tpl_template, tpl_values)

\* the template the claim has the dispatcher use: the server's for the
\* status when set, or else the global one for the status when set (a text
\* json.loads refuses counts as not set), or else none
ClaimedTemplate(t) ==
    LET server_template == ForStatus(t.status, t.server_success, t.server_failure)
        global_template == ForStatus(t.status, t.global_success, t.global_failure)
    IN  IF tpl_pc = "telegram_done"
        THEN IF server_template # <<>> THEN StrNode(server_template)
             ELSE IF global_template # <<>> THEN StrNode(global_template)
             ELSE None
        ELSE IF Truthy(server_template) THEN server_template
             ELSE IF global_template.kind = "json" THEN global_template.val
             ELSE None

\* C28: what is sent on a channel is the substituted template of the server
\* for the status when one is set, or else the substituted global template
\* for the status when one is set, or else the built-in representation.
C28_TemplateChoice ==
    /\ tpl_pc = "telegram_done" =>
          tpl_result = Sent(IF ClaimedTemplate(tpl_template) = None
                            THEN FormatTelegramMessageFromData(tpl_values)
                            ELSE ReplaceTemplateVariables(ClaimedTemplate(tpl_template).val,
                                                          tpl_values))
    /\ tpl_pc = "webhook_done" =>
          tpl_result = Sent(IF ClaimedTemplate(tpl_template) = None
                            THEN NotificationData(tpl_values)
                            ELSE DeepReplace(ClaimedTemplate(tpl_template), tpl_values))

----------------------------------------------------------------------------
(* Claims about load_configs (SpecLoad).                                   *)

\* the files read so far that were not skipped, in order
Accepted ==
    SelectSeq(SubSeq(ld_files, 1, ld_i - 1), LAMBDA f : ~Skipped(f))

\* C22: every ServerConfig in the list load_configs builds has a retain
\* count of at least 0, a non-empty api_token and one of the two supported
\* providers.
C22_AcceptedAreValid ==
    \A j \in 1..Len(ld_servers) :
        /\ ld_servers[j].retain_last_snapshots >= 0
        /\ ld_servers[j].api_token # ""
        /\ ld_servers[j].provider \in {"digitalocean", "hetzner"}

\* C27 as stated: a channel the file enables is resolved enabled.
C27_EnabledStaysEnabled ==
    /\ Len(ld_servers) = Len(Accepted)
    /\ \A j \in 1..Len(ld_servers) :
          /\ Accepted[j].telegram_enabled = "true" => ld_servers[j].telegram_enabled
          /\ Accepted[j].webhook_enabled = "true" => ld_servers[j].webhook_enabled

\* C27, amended: each ServerConfig comes from a file that was not skipped, in
\* the order of the files, and for both channels: "enabled": true resolves
\* enabled exactly when the file gives the whole credential (URL) or the
\* settings do, with the file's own when it is whole and the global one
\* otherwise; "enabled": false resolves disabled whatever the settings are;
\* no "enabled" key resolves to the global flag and, when that is on, to the
\* file's value of each credential, or the global one where the file has none.
C27_ChannelResolution ==
    /\ Len(ld_servers) = Len(Accepted)
    /\ \A j \in 1..Len(ld_servers) :
        LET f == Accepted[j]
            sv == ld_servers[j]
            own == f.telegram_bot_token /\ f.telegram_chat_id
            glob == ld_settings.telegram_bot_token /\ ld_settings.telegram_chat_id
        IN  /\ sv.name = f.name
            /\ f.telegram_enabled = "true" =>
                  /\ sv.telegram_enabled <=> (own \/ glob)
                  /\ own => sv.telegram_bot_token = "own" /\ sv.telegram_chat_id = "own"
                  /\ (~own /\ glob) =>
                        sv.telegram_bot_token = "global" /\ sv.telegram_chat_id = "global"
            /\ f.telegram_enabled = "false" => ~sv.telegram_enabled
            /\ f.telegram_enabled = "unset" =>
                  /\ sv.telegram_enabled <=> ld_settings.telegram_enabled
                  /\ sv.telegram_enabled =>
                        /\ sv.telegram_bot_token =
                              (IF f.telegram_bot_token THEN "own"
                               ELSE IF ld_settings.telegram_bot_token THEN "global"
                               ELSE "none")
                        /\ sv.telegram_chat_id =
                              (IF f.telegram_chat_id THEN "own"
                               ELSE IF ld_settings.telegram_chat_id THEN "global"
                               ELSE "none")
            /\ f.webhook_enabled = "true" =>
                  /\ sv.webhook_enabled <=> (f.webhook_url \/ ld_settings.webhook_url)
                  /\ f.webhook_url => sv.webhook_url = "own"
                  /\ (~f.webhook_url /\ ld_settings.webhook_url) => sv.webhook_url = "global"
            /\ f.webhook_enabled = "false" => ~sv.webhook_enabled
            /\ f.webhook_enabled = "unset" =>
                  /\ sv.webhook_enabled <=> ld_settings.webhook_enabled
                  /\ sv.webhook_enabled =>
                        sv.webhook_url = (IF f.webhook_url THEN "own"
                                          ELSE IF ld_settings.webhook_url THEN "global"
                                          ELSE "none")

\* two files were loaded: one enables Telegram and gives only a bot token,
\* the settings have both credentials, and the global ones are used; the
\* other disables the webhook
C27_Witness ==
    /\ ld_pc = "returned"
    /\ Len(ld_servers) = 2
    /\ ld_files[1].telegram_enabled = "true"
    /\ ld_files[1].telegram_bot_token
    /\ ~ld_files[1].telegram_chat_id
    /\ ld_servers[1].telegram_enabled
    /\ ld_servers[1].telegram_bot_token = "global"
    /\ ld_files[2].webhook_enabled = "false"
    /\ ~ld_servers[2].webhook_enabled

----------------------------------------------------------------------------
(* Claims about the lock file protocol (SpecLock).                         *)

\* between a successful acquire_lock and the call of release_lock
InsideRun(p) == lpc[p] = "held"

\* C2: at no time are two invocations both between a successful
\* acquire_lock and their release_lock.
C2_MutualExclusion ==
    \A p \in Procs : \A q \in Procs :
        (p # q) => ~(InsideRun(p) /\ InsideRun(q))

\* invocation p holds the flock on some inode
HoldsLock(p) == \E i \in Inodes : flock_owner[i] = p

\* C15: an invocation that is about to call flock while another invocation
\* holds the lock is refused (BlockingIOError, exit code 3); and an
\* invocation that ended with exit code 3 has not entered the try body of
\* main(), where the configurations are loaded and run() is called.
C15_FailFast ==
    \A p \in Procs :
        /\ (lpc[p] = "opened" /\ \E q \in Procs \ {p} : HoldsLock(q)) =>
              flock_owner[lock_fd[p]] # 0
        /\ lpc[p] = "exit3" => (main_exit[p] = "none" /\ ~HoldsLock(p))

\* the invocation has ended
Ended(p) == lpc[p] \in {"done", "exit3"}

\* C16: an invocation that acquired the lock calls release_lock once, and
\* only when the try body of main() has ended, whichever way it ended; an
\* invocation that has ended holds no flock and no descriptor, and has
\* called release_lock exactly once if it had acquired the lock.
C16_ReleasedOnce ==
    \A p \in Procs :
        /\ releases[p] <= 1
        /\ releases[p] = 1 => main_exit[p] \in MainExits
        /\ lpc[p] \in {"unlocked", "closed", "done"} => releases[p] = 1
        /\ Ended(p) => (~HoldsLock(p) /\ lock_fd[p] = 0)
        /\ lpc[p] = "done" => (main_exit[p] \in MainExits /\ releases[p] = 1)
        /\ lpc[p] = "exit3" => releases[p] = 0

\* one invocation has ended after sys.exit(2) and one after an exception,
\* each having released the lock
C16_Witness ==
    \E p, q \in Procs :
        /\ lpc[p] = "done" /\ main_exit[p] = "exit2" /\ releases[p] = 1
        /\ lpc[q] = "done" /\ main_exit[q] = "exception" /\ releases[q] = 1

\* C34: while an invocation is between its acquire_lock and its
\* release_lock, LOCK_FILE names the file it has locked and that file holds
\* its process id, whatever other invocations do meanwhile.
C34_LockFileHoldsPid ==
    \A p \in Procs :
        InsideRun(p) =>
            /\ lock_path # 0
            /\ lock_path = lock_fd[p]
            /\ file_content[lock_path] = p

\* C36: the try body of main() after acquire_lock, in which the
\* configurations are loaded, the providers called and the notifications
\* sent, is run only by an invocation that has the flock it acquired, and
\* still has it when the body has ended; release_lock is called only after
\* the body has ended; an invocation that was refused runs no body.
C36_WorkOnlyUnderLock ==
    /\ [](\A p \in Procs :
            /\ InsideRun(p) => (lock_fd[p] # 0 /\ flock_owner[lock_fd[p]] = p)
            /\ main_exit[p] # "none" => lpc[p] \in {"held", "unlocked", "closed", "done"}
            /\ (main_exit[p] = "none" /\ lpc[p] # "off") =>
                  lpc[p] \in {"start", "opened", "flocked", "held", "exit3"})
    /\ [][\A p \in Procs :
            /\ main_exit'[p] # main_exit[p] =>
                  /\ InsideRun(p) /\ flock_owner[lock_fd[p]] = p
                  /\ InsideRun(p)' /\ flock_owner'[lock_fd'[p]] = p
            /\ releases'[p] # releases[p] => main_exit[p] # "none"]_vars

\* an invocation has run its body and still holds the lock, another was
\* refused meanwhile
C36_Witness ==
    \E p, q \in Procs :
        /\ lpc[p] = "held" /\ main_exit[p] = "completed" /\ flock_owner[lock_fd[p]] = p
        /\ lpc[q] = "exit3"

\* C39: an invocation whose acquisition fails never unlocks, never removes
\* the lock file and never calls release_lock: a flock is given up only by
\* the Unlock step of its owner, the lock file is removed only by an
\* invocation that ran its body and released, the step that refuses an
\* invocation leaves every flock and the lock file's name in place, and a
\* refused invocation does nothing afterwards.
C39_ContenderLeavesLock ==
    /\ [](\A p \in Procs :
            lpc[p] = "exit3" => (releases[p] = 0 /\ lock_fd[p] = 0 /\ ~HoldsLock(p)))
    /\ [][\A p \in Procs :
            /\ (lpc[p] # "exit3" /\ lpc'[p] = "exit3") =>
                  (flock_owner' = flock_owner /\ lock_path' = lock_path)
            /\ lpc[p] = "exit3" => lpc'[p] = "exit3"]_vars
    /\ [][\A i \in Inodes :
            (flock_owner[i] # 0 /\ flock_owner'[i] # flock_owner[i]) =>
                (lpc[flock_owner[i]] = "held" /\ lpc'[flock_owner[i]] = "unlocked")]_vars
    /\ [][(lock_path # 0 /\ lock_path' = 0) =>
            \E p \in Procs : lpc[p] = "closed" /\ lpc'[p] = "done" /\ releases[p] = 1]_vars

\* the contender has exited with status 3 and the holder, still before its
\* body's end, has the flock on the file the path names
C39_Witness ==
    \E p, q \in Procs :
        /\ lpc[q] = "exit3"
        /\ lpc[p] = "held" /\ main_exit[p] = "none"
        /\ flock_owner[lock_fd[p]] = p /\ lock_path = lock_fd[p]

----------------------------------------------------------------------------
(* Claims about the notification senders (SpecNotify).                     *)

\* the waits made so far are d, 2d, 4d, ...
SleepsDouble ==
    /\ (Len(snd_sleeps) >= 1 => snd_sleeps[1] = snd_delay)
    /\ \A k \in 2..Len(snd_sleeps) : snd_sleeps[k] = 2 * snd_sleeps[k - 1]

\* C9: with N attempts configured and base delay d, a target on which every
\* attempt fails gets exactly N attempts, a wait of d * 2^(k-1) after the
\* k-th failed attempt for k < N and none after the N-th, and the sender
\* then returns False; this holds for the chat and the webhook sender.
C9_RetryBound ==
    snd_configured =>
        /\ snd_requests <= snd_retries
        /\ SleepsDouble
        \* a wait follows each failed attempt but the last configured one
        /\ (snd_pc = "attempt" => Len(snd_sleeps) = snd_failed)
        /\ (snd_pc = "sleep" => Len(snd_sleeps) = snd_failed - 1 /\ snd_failed < snd_retries)
        \* N failures end the call with False, after N - 1 waits
        /\ ((snd_retries >= 1 /\ snd_failed = snd_retries) =>
                /\ snd_pc = "returned"
                /\ snd_result = "False"
                /\ snd_requests = snd_retries
                /\ Len(snd_sleeps) = snd_retries - 1)
        \* the call returns False only after N failures, and always returns a value
        /\ ((snd_pc = "returned" /\ snd_result = "False") => snd_failed = snd_retries)
        /\ (snd_pc = "returned" => snd_result \in {"True", "False"})

\* C9's case: three attempts with base delay 2 all failed
C9_Witness ==
    /\ snd_pc = "returned"
    /\ snd_result = "False"
    /\ snd_configured
    /\ snd_retries = 3
    /\ snd_requests = 3
    /\ snd_sleeps = <<2, 4>>

\* the success criterion as the claim gives it
CountsAsSuccess(kind, resp) ==
    /\ ~resp.raised
    /\ kind = "telegram" => resp.status_code = 200
    /\ kind = "webhook" => resp.status_code \in 200..299

\* C30: an attempt of the chat sender counts as success only on HTTP 200 and
\* one of the webhook sender on any 2xx; the sender returns True on the first
\* such attempt and makes no request and no sleep after it has returned; any
\* other response or transport error is followed by the backoff sleep and
\* the next attempt while attempts remain, and by return False otherwise.
C30_SuccessCriterion ==
    /\ []((snd_pc = "returned" /\ snd_result = "True") => snd_requests = snd_failed + 1)
    /\ [](snd_pc = "sleep" => (snd_failed = snd_requests /\ snd_attempt < snd_retries))
    /\ [][\A resp \in Responses : SendAttemptGiven(resp) =>
            /\ snd_requests' = snd_requests + 1
            /\ IF CountsAsSuccess(snd_kind, resp)
               THEN snd_pc' = "returned" /\ snd_result' = "True" /\ snd_sleeps' = snd_sleeps
               ELSE IF snd_attempt < snd_retries
                    THEN snd_pc' = "sleep" /\ snd_result' = "none"
                    ELSE snd_pc' = "returned" /\ snd_result' = "False"]_vars
    /\ [][snd_pc = "sleep" =>
            (snd_pc' = "attempt" /\ snd_attempt' = snd_attempt + 1
             /\ Len(snd_sleeps') = Len(snd_sleeps) + 1)]_vars
    /\ [][snd_pc = "returned" => UNCHANGED sndVars]_vars

\* the webhook sender returned True on its second attempt, after one
\* response that was no success and one sleep
C30_Witness ==
    /\ snd_kind = "webhook"
    /\ snd_pc = "returned"
    /\ snd_result = "True"
    /\ snd_requests = 2
    /\ snd_failed = 1
    /\ Len(snd_sleeps) = 1

----------------------------------------------------------------------------
(* Claims about one pass of manage_snapshots_for_server (SpecPass).        *)

\* the place of a step in the sequence; polling belongs to creation
StepRank(s) ==
    CASE s = "list" -> 1 [] s = "select" -> 2 [] s = "create" -> 3 [] s = "poll" -> 3
      [] s = "delete" -> 4 [] OTHER -> 5

Count(seq, x) == Cardinality({i \in 1..Len(seq) : seq[i] = x})

\* the pass is past step 5 and inside or just out of write_final_status
Reported == pc \in {"telegram", "telegram_send", "webhook", "webhook_send", "returned"}

\* the pass is past step 4
PastDelete == pc = "relist" \/ pc = "status" \/ Reported

IdsOf(seq) == [i \in 1..Len(seq) |-> seq[i].id]

\* C3: the steps of a pass come in the order list, select, create (with its
\* polling), delete, re-list, none skipped before a later one and none
\* entered twice; a delete request is issued only when creation has reached
\* a terminal outcome, and the re-list only when the delete loop has issued
\* its last request.
C3_FixedOrder ==
    /\ \A i \in 1..Len(steps) : \A j \in 1..Len(steps) :
          i < j => StepRank(steps[i]) <= StepRank(steps[j])
    /\ \A s \in {"list", "select", "create", "relist"} : Count(steps, s) <= 1
    /\ Len(steps) >= 1 => steps[1] = "list"
    /\ Len(steps) >= 2 => steps[2] = "select"
    /\ Len(steps) >= 3 => steps[3] = "create"
    /\ Count(steps, "delete") = Len(delete_requests)
    /\ Count(steps, "delete") > 0 => create_outcome # "none"
    /\ Count(steps, "relist") > 0 =>
          /\ create_outcome # "none"
          /\ Len(delete_requests) = Len(to_delete)

\* a pass that polled, issued two delete requests and re-listed
C3_Witness ==
    /\ pc = "status"
    /\ steps = <<"list", "select", "create", "poll", "delete", "delete", "relist">>

\* C4: every delete request of a pass is for a snapshot of the listing of
\* step 1, none is for the snapshot the pass created, and that snapshot is
\* still at the provider afterwards.
C4_DeletesOnlyListed ==
    /\ Range(delete_requests) \subseteq Range(IdsOf(snapshots))
    /\ (snapshot_name # <<>> /\ pc # "loop" /\ pc # "exited") =>
          /\ NewSnapshot(CurrentServer, clock).id \notin Range(delete_requests)
          /\ NewSnapshot(CurrentServer, clock) \in cloud

\* a pass with retain count 0 that created a snapshot and deleted the listed ones
C4_Witness ==
    /\ pc = "relist"
    /\ CurrentServer.retain_last_snapshots = 0
    /\ snapshot_name # <<>>
    /\ Len(delete_requests) >= 2

\* C5: the status of the FINAL_STATUS line is success exactly when
\* create_snapshot returned a name, which the line then carries; otherwise
\* the status is failure and the name is "none".
C5_StatusFromCreation ==
    \A i \in 1..Len(status_lines) :
        LET line == status_lines[i]
        IN  /\ line.status = "success" <=> create_outcome = "completed"
            /\ create_outcome = "completed" =>
                  snapshot_name # <<>> /\ line.snapshot_name = snapshot_name
            /\ create_outcome # "completed" =>
                  line.status = "failure" /\ line.snapshot_name = <<"none">>

\* a pass whose creation timed out has written its status line
C5_Witness ==
    /\ pc = "telegram"
    /\ create_outcome = "timeout"
    /\ status_lines # <<>>
    /\ status_lines[1].status = "failure"

\* the outcomes of create_snapshot that give no name
CreationFailures ==
    {"unknown_provider", "request_error", "no_action_id", "errored", "unexpected_error", "timeout"}

\* C6: when creation gave no name, the pass has, once past step 4, issued one
\* delete request for every candidate of step 2, in their order, and its
\* status line says failure and "none".
C6_DeletionWhateverCreation ==
    (PastDelete /\ create_outcome \in CreationFailures) =>
        /\ delete_requests = IdsOf(to_delete)
        /\ Reported =>
              /\ Len(status_lines) = 1
              /\ status_lines[1].status = "failure"
              /\ status_lines[1].snapshot_name = <<"none">>

\* a pass whose creation timed out and that had two candidates to delete
C6_Witness ==
    /\ pc = "returned"
    /\ create_outcome = "timeout"
    /\ Len(to_delete) >= 2
    /\ delete_requests = IdsOf(to_delete)

\* what the provider holds for the current server, by the filter of the listing
Held == ListSnapshots(CurrentServer, cloud, 0)

\* C7: the total of the status line is the number of snapshots the provider
\* holds for the server at the re-list.
C7_TotalIsActual ==
    Reported => status_lines[1].total_snapshots = Len(Held)

\* the snapshots the provider held for the current server when the pass began
HeldBefore ==
    {x \in Range(Held) \cup Range(to_delete) : x.id < 100}

\* listing, creation, every deletion and the re-list went well
AllWentWell ==
    /\ lists_failed = {}
    /\ create_outcome = "completed"
    /\ Range(to_delete) \cap cloud = {}

C17_DeleteLoopGoesOn ==
    pc \notin {"off", "exited"} =>
        /\ delete_requests = SubSeq(IdsOf(to_delete), 1, del_i)
        /\ (pc = "delete" /\ del_i > 0) =>
              (del_i < Len(to_delete) /\ del_reply \in DeleteReplies)
        /\ PastDelete => delete_requests = IdsOf(to_delete)
        /\ del_errors = Cardinality({i \in 1..del_i : to_delete[i] \in cloud})
        /\ del_reply = "404" => to_delete[del_i] \notin cloud

\* the first request was answered 404 and logged no error, a later one
\* failed, and the loop is about to issue the third
C17_Witness ==
    /\ pc = "delete"
    /\ del_i = 2
    /\ Len(to_delete) = 3
    /\ to_delete[1] \notin cloud
    /\ del_reply = "request_error"
    /\ del_errors = 1

\* C18: a listing one of whose page requests failed gives the empty list:
\* step 1 then has no snapshots to select from, and step 5 counts none.
C18_EmptyOnFailure ==
    /\ (pc = "select" /\ "list" \in lists_failed) => snapshots = <<>>
    /\ (pc = "status" /\ "relist" \in lists_failed) => total_snapshots = 0

\* C19: create_snapshot has returned a name exactly when the polling of the
\* create action ended with the completed status; then the name is that of
\* the snapshot the provider now has; while creation is under way, and after
\* a failed request, a missing action id, an errored action or the timeout,
\* there is no name.
C19_NameOnlyWhenCompleted ==
    /\ snapshot_name # <<>> <=> create_outcome = "completed"
    /\ create_outcome \in CreationFailures => snapshot_name = <<>>
    /\ pc \in {"list", "select", "create", "poll"} =>
          (snapshot_name = <<>> /\ create_outcome = "none")
    /\ (create_outcome = "completed" /\ pc \notin {"loop", "exited"}) =>
          /\ Count(steps, "poll") = 1
          /\ snapshot_name = <<CurrentServer.name, NewSnapshot(CurrentServer, clock).created_at>>
          /\ NewSnapshot(CurrentServer, clock) \in cloud

\* the polling of an accepted create action has timed out: no name
C19_Witness ==
    /\ pc = "delete"
    /\ create_outcome = "timeout"
    /\ Count(steps, "poll") = 1
    /\ snapshot_name = <<>>

\* the steps of a pass that call the provider, or work on what it gave
ProviderSteps == {"list", "select", "create", "poll", "delete", "relist", "status"}

\* C23: whatever the provider calls of a pass give, the pass never raises:
\* every step taken at one of its provider steps leads to a step of the
\* pass, and once it is past them it has written one FINAL_STATUS line, with
\* status failure exactly when creation failed and success otherwise, and
\* run() has counted it as returned.
C23_ProviderErrorsAbsorbed ==
    /\ [](/\ pc # "raised"
          /\ (pc \in {"telegram", "telegram_send", "webhook", "webhook_send", "returned"}
              \/ counted # "none") =>
                /\ Len(status_lines) = 1
                /\ status_lines[1].status \in {"success", "failure"}
                /\ status_lines[1].status = "failure" <=> create_outcome \in CreationFailures
          /\ counted \in {"none", "success"})
    /\ [][(pc \in ProviderSteps) => (pc' \in ProviderSteps \cup {"telegram"})]_vars

\* a pass in which both listings failed on a later page, the poll response
\* was malformed and a delete request failed has returned
C23_Witness ==
    /\ counted = "success"
    /\ lists_failed = {"list", "relist"}
    /\ create_outcome = "unexpected_error"
    /\ del_errors >= 1
    /\ status_lines[1].status = "failure"

\* every snapshot the provider holds or the pass selected for deletion
Known == cloud \cup Range(to_delete)

\* the snapshots of the instance of d that are at least as new as d and for
\* which the pass issues no delete request
NewerKept(d) ==
    {k \in Known : /\ k.resource_id = d.resource_id
                   /\ k.created_at >= d.created_at
                   /\ k.id \notin Range(IdsOf(to_delete))}

\* C37: for a retain count r >= 0, every snapshot a pass requests the
\* deletion of has at least r snapshots of the same instance that are at
\* least as new and are not requested for deletion, also when the listing of
\* step 1 was cut short by a failed page; so the instance is never left with
\* fewer than min(r, number before the pass) snapshots.
C37_RetentionSafety ==
    (pc \in {"delete", "relist", "status"} /\ CurrentServer.retain_last_snapshots >= 0) =>
        LET r == CurrentServer.retain_last_snapshots
        IN  /\ \A d \in Range(to_delete) :
                  d.id \in Range(delete_requests) => Cardinality(NewerKept(d)) >= r
            /\ \A id \in {k.resource_id : k \in Known} :
                  Cardinality({k \in cloud : k.resource_id = id}) >=
                      Min(r, Cardinality({k \in Known : k.resource_id = id /\ k.id < 100}))

----------------------------------------------------------------------------
(* Claims about action polling (SpecCreate, SpecCreateFair).               *)

\* the replies after which the polling loop sleeps and polls again: all but
\* the two terminal statuses of the provider and the malformed response
PendingReplies(provider) ==
    PollReplies \ {CompletedStatus(provider), ErroredStatus(provider), "malformed"}

\* C25: while an action is polled creation has no outcome, and a poll that
\* left it pending gave a reply other than the provider's two terminal
\* statuses and was followed by the 5-second sleep; every in-progress or
\* running status, failed request and unrecognised status leaves it pending;
\* creation is completed only on the provider's completed status and errored
\* only on its errored status; the timeout is entered only from the pending
\* state with the time used up; once creation has an outcome no poll follows.
C25_PollTransitions ==
    /\ [](pc = "poll" =>
            /\ create_outcome = "none"
            /\ poll_reply # "none" =>
                  /\ poll_reply \in PendingReplies(CurrentServer.provider)
                  /\ elapsed >= PollSleep)
    /\ []((pc = "delete" /\ create_outcome = "completed") =>
            poll_reply = CompletedStatus(CurrentServer.provider))
    /\ []((pc = "delete" /\ create_outcome = "errored") =>
            poll_reply = ErroredStatus(CurrentServer.provider))
    /\ [][(pc = "poll" /\ pc' = "poll") =>
            /\ elapsed < SNAPSHOT_CREATION_TIMEOUT
            /\ elapsed' = elapsed + PollSleep]_vars
    /\ [][(pc = "poll" /\ poll_reply' \in PendingReplies(CurrentServer.provider)) =>
            (pc' = "poll" /\ create_outcome' = "none")]_vars
    /\ [][(create_outcome' = "timeout" /\ create_outcome # "timeout") =>
            (pc = "poll" /\ create_outcome = "none"
             /\ elapsed >= SNAPSHOT_CREATION_TIMEOUT)]_vars
    /\ [][pc' = "poll" => (pc \in {"create", "poll"} /\ create_outcome = "none")]_vars

\* a droplet's action is pending after a poll that gave a status the
\* DigitalOcean loop does not know
C25_Witness ==
    /\ pc = "poll"
    /\ CurrentServer.provider = "digitalocean"
    /\ poll_reply = "success"
    /\ elapsed = PollSleep
    /\ create_outcome = "none"

\* C26: an action that is polled leads to the deletion step whatever the
\* polls give; the sleeps of the polling loop never add up to more than the
\* timeout and one sleep; with the time used up the only step is the
\* timeout, after which create_snapshot has returned no name and the pass
\* is at the deletion step.
C26_PollingEnds ==
    /\ (pc = "poll") ~> (pc = "delete")
    /\ [](pc = "poll" => elapsed < SNAPSHOT_CREATION_TIMEOUT + PollSleep)
    /\ [][(pc = "poll" /\ elapsed >= SNAPSHOT_CREATION_TIMEOUT) =>
            (pc' = "delete" /\ create_outcome' = "timeout" /\ snapshot_name' = <<>>)]_vars

\* every poll left the action pending and the loop ended on the timeout
C26_Witness ==
    /\ pc = "delete"
    /\ create_outcome = "timeout"
    /\ poll_reply = "none"
    /\ steps = <<"list", "select", "create", "poll">>
    /\ snapshot_name = <<>>

----------------------------------------------------------------------------
(* Claims about run() over several servers (Spec).                         *)

DeliveryOutcomes == {"skipped", "True", "False"}

\* C10: whatever the two deliveries of a pass gave, the status line is the
\* one creation determined; a pass both of whose deliveries have an outcome
\* is counted as a success of the run and never as a failure; and the run
\* goes on to the servers that follow, so that at its end every server has
\* been counted.
C10_NotificationsNeverFail ==
    /\ (tg_result \in DeliveryOutcomes \/ wh_result \in DeliveryOutcomes) =>
          /\ Len(status_lines) = 1
          /\ status_lines[1].status =
                (IF create_outcome = "completed" THEN "success" ELSE "failure")
    /\ (wh_result \in DeliveryOutcomes /\ pc \in {"returned", "sleep", "loop", "exited"}) =>
          /\ tg_result \in DeliveryOutcomes
          /\ pc # "returned" => counted = "success"
    /\ counted = "failure" => wh_result \notin DeliveryOutcomes
    /\ pc = "sleep" => idx < Len(servers)
    /\ pc = "exited" =>
          /\ idx = Len(servers) + 1
          /\ success_count + failure_count = Len(servers)

\* the first of two servers is through: both deliveries failed, creation had
\* succeeded, the pass is counted and the next server comes
C10_Witness ==
    /\ pc = "sleep"
    /\ idx = 1
    /\ tg_result = "False"
    /\ wh_result = "False"
    /\ status_lines[1].status = "success"
    /\ counted = "success"
    /\ success_count = 1

\* the number of x in seq
Tally(seq, x) == Cardinality({i \in 1..Len(seq) : seq[i] = x})

\* C11: when run() has ended, the exit code is 1 if every pass reported the
\* status failure, 2 if some reported success and some failure, and 0 if
\* every pass reported success.
C11_ExitByStatus ==
    pc = "exited" =>
        exit_code = (IF Tally(results, "failure") = 0 THEN 0
                     ELSE IF Tally(results, "success") = 0 THEN 1 ELSE 2)

\* the passes run() has counted so far
Finished == IF pc = "sleep" THEN idx ELSE idx - 1

\* C12: run() has counted every server it is through with exactly once, as a
\* success or as a failure; at the end the two counts add up to the number
\* of servers and the exit code is 0 when failure_count = 0, 1 when
\* failure_count > 0 and success_count = 0, and 2 when both are positive
\* (no exit code before the end).
C12_Tallies ==
    pc # "off" =>
        /\ success_count + failure_count = Finished
        /\ pc # "exited" => exit_code = -1
        /\ pc = "exited" =>
              /\ success_count + failure_count = Len(servers)
              /\ exit_code = (IF failure_count = 0 THEN 0
                              ELSE IF success_count = 0 THEN 1 ELSE 2)

\* a run over two servers has ended with one counted of each kind
C12_Witness ==
    /\ pc = "exited"
    /\ Len(servers) = 2
    /\ success_count = 1
    /\ failure_count = 1
    /\ exit_code = 2

\* C13: the passes are started for the servers 1, 2, ... in turn, each once,
\* and at the end of the run for every one of them; the step out of a pass
\* that raised an unexpected error adds one to failure_count, leaves
\* success_count alone and goes to the next server.
C13_FailureIsolated ==
    /\ [](/\ started = [i \in 1..Len(started) |-> i]
          /\ Len(started) <= Len(servers)
          /\ pc = "exited" => Len(started) = Len(servers))
    /\ [][pc = "raised" =>
             /\ failure_count' = failure_count + 1
             /\ success_count' = success_count
             /\ idx' = idx + 1
             /\ pc' = "loop"]_vars

\* the pass of the first server raised; the second server is being processed
C13_Witness ==
    /\ Len(servers) = 2
    /\ started = <<1, 2>>
    /\ pc = "create"
    /\ failure_count = 1
    /\ success_count = 0

\* C14: run() goes from one server to the next one in the list, and only
\* from a pass that has returned or raised, with no sender at work; a sender
\* is at work only inside the write_final_status of the current pass.
C14_OneAfterAnother ==
    /\ []((pc # "off" /\ snd_pc # "idle") => pc \in {"telegram_send", "webhook_send"})
    /\ [][idx' # idx =>
             /\ idx' = idx + 1
             /\ pc \in {"returned", "sleep", "raised"}
             /\ pc' = "loop"
             /\ snd_pc = "idle"]_vars
    /\ [][(pc' = "list" /\ pc # "list") =>
             /\ pc = "loop"
             /\ snd_pc = "idle"
             /\ Len(started) = idx - 1]_vars

\* the second server's webhook is being sent, after a failed attempt and a
\* wait; the first server's pass is over
C14_Witness ==
    /\ Len(servers) = 2
    /\ idx = 2
    /\ pc = "webhook_send"
    /\ snd_failed >= 1
    /\ snd_sleeps # <<>>
    /\ success_count = 1

\* the JSON file a loaded server came from
KindOf(server) == CHOOSE k \in ServerKinds : k.name = server.name

\* C20: a sender is at work only for the channel write_final_status is at,
\* and only when that channel was resolved enabled for the current server
\* and the server's own or the global credentials (URL) exist; a result
\* other than "skipped" means the same. A server whose file enables a
\* channel without the credentials (URL), under settings without the global
\* ones, is loaded with the channel disabled, no sender is called for it and
\* the channel's result is "skipped".
C20_NoAttemptUnlessUsable ==
    /\ snd_pc # "idle" => pc \in {"telegram_send", "webhook_send"}
    /\ pc = "telegram_send" =>
          /\ snd_kind = "telegram"
          /\ CurrentServer.telegram_enabled
          /\ \/ CurrentServer.telegram_bot_token # "none" /\ CurrentServer.telegram_chat_id # "none"
             \/ config.telegram_bot_token /\ config.telegram_chat_id
    /\ pc = "webhook_send" =>
          /\ snd_kind = "webhook"
          /\ CurrentServer.webhook_enabled
          /\ CurrentServer.webhook_url # "none" \/ config.webhook_url
    /\ (pc \in {"webhook", "webhook_send", "returned"} /\ tg_result # "skipped") =>
          /\ KindOf(CurrentServer).telegram_enabled # "false"
          /\ CurrentServer.telegram_enabled
          /\ \/ KindOf(CurrentServer).telegram_bot_token /\ KindOf(CurrentServer).telegram_chat_id
             \/ config.telegram_bot_token /\ config.telegram_chat_id
    /\ (pc = "returned" /\ wh_result # "skipped") =>
          /\ KindOf(CurrentServer).webhook_enabled # "false"
          /\ CurrentServer.webhook_enabled
          /\ KindOf(CurrentServer).webhook_url \/ config.webhook_url
    /\ \A i \in 1..Len(servers) :
          /\ ( /\ KindOf(servers[i]).telegram_enabled = "true"
               /\ ~(KindOf(servers[i]).telegram_bot_token /\ KindOf(servers[i]).telegram_chat_id)
               /\ ~(config.telegram_bot_token /\ config.telegram_chat_id) ) =>
                  /\ ~servers[i].telegram_enabled
                  /\ idx = i => pc # "telegram_send"
                  /\ (idx = i /\ pc \in {"webhook", "webhook_send", "returned"}) =>
                        tg_result = "skipped"
          /\ ( /\ KindOf(servers[i]).webhook_enabled = "true"
               /\ ~KindOf(servers[i]).webhook_url
               /\ ~config.webhook_url ) =>
                  /\ ~servers[i].webhook_enabled
                  /\ idx = i => pc # "webhook_send"
                  /\ (idx = i /\ pc = "returned") => wh_result = "skipped"

\* the file of "web2" enables Telegram and gives no chat id, and there are no
\* global credentials: its Telegram part was skipped, and its webhook, which
\* has a URL, is being delivered
C20_Witness ==
    /\ pc = "webhook_send"
    /\ CurrentServer.name = "web2"
    /\ KindOf(CurrentServer).telegram_enabled = "true"
    /\ ~KindOf(CurrentServer).telegram_chat_id
    /\ ~config.telegram_chat_id
    /\ ~CurrentServer.telegram_enabled
    /\ tg_result = "skipped"
    /\ snd_requests >= 1

\* C24: run() sleeps only after a server that is not the last, and goes on
\* from a server that is not the last to the next one only out of that
\* sleep, whether the pass returned or raised.
C24_DelayBetweenInstances ==
    /\ [](pc = "sleep" => idx < Len(servers))
    /\ [][(idx' = idx + 1 /\ idx < Len(servers)) => pc = "sleep"]_vars

\* C32: every pass that was started and has ended, by a return or by an
\* unexpected error that run() counted as a failure, has written exactly
\* one FINAL_STATUS line and has then dispatched the notification on both
\* channels (each sent, failed or skipped); at the end of the run there is
\* one line per configured server.
C32_OneResultPerPass ==
    /\ Len(results) \in {Len(started) - 1, Len(started)}
    /\ counted # "none" =>
          /\ Len(results) = Len(started)
          /\ Len(status_lines) = 1
          /\ tg_result # "none"
          /\ wh_result # "none"
    /\ pc = "exited" => Len(results) = Len(servers)

\* the server of the pass started last
LastStarted == servers[started[Len(started)]]

\* C33: a pass of a server whose webhook channel resolved enabled with a
\* URL has, when it has ended, made a webhook delivery (which succeeded or
\* failed), whatever the chat delivery gave; the chat channel has its
\* outcome before the webhook sender is called, and the webhook channel has
\* none while the chat channel is at work.
C33_ChannelsIndependent ==
    /\ (counted # "none" /\ LastStarted.webhook_enabled /\ LastStarted.webhook_url # "none") =>
          wh_result \in {"True", "False"}
    /\ pc = "webhook_send" => tg_result \in DeliveryOutcomes
    /\ pc \in {"telegram", "telegram_send"} => wh_result = "none"

\* C35: every snapshot a pass has listed, every snapshot it has selected
\* for deletion and every snapshot it has asked the provider to delete is a
\* snapshot taken of the server of the pass.
C35_OnlyOwnSnapshots ==
    started # <<>> =>
        /\ \A x \in Range(snapshots) \cup Range(to_delete) : x.resource_id = LastStarted.id
        /\ \A i \in 1..Len(delete_requests) :
              \E x \in Range(to_delete) :
                  x.id = delete_requests[i] /\ x.resource_id = LastStarted.id

----------------------------------------------------------------------------
(* Claims about consecutive passes for one server (SpecSteady).            *)

\* the snapshots the provider holds for the instance of the current server
OwnNow == {x \in cloud : x.resource_id = CurrentServer.id}

\* those it held when the current pass began
OwnBefore ==
    {x \in cloud \cup Range(to_delete) :
        x.resource_id = CurrentServer.id /\ x # NewSnapshot(CurrentServer, clock)}

\* pass number n has written its status line, and its listings, its creation
\* and all its deletions succeeded
WentWell(n) ==
    /\ Len(started) = n
    /\ Reported
    /\ AllWentWell

\* the instance holds retain + 1 snapshots
Steady == Cardinality(OwnNow) = CurrentServer.retain_last_snapshots + 1

\* C38: over consecutive passes for one instance in which listing, creation
\* and deletions all succeed, the instance holds min(count before, retain) + 1
\* snapshots after each pass, and retain + 1 after the second pass.
C38_SteadyState ==
    /\ [](\A n \in 1..NumPasses :
            WentWell(n) =>
                Cardinality(OwnNow) =
                    Min(Cardinality(OwnBefore), CurrentServer.retain_last_snapshots) + 1)
    /\ [](WentWell(1) => [](WentWell(2) => Steady))

----------------------------------------------------------------------------
(* Specifications.                                                         *)

InitSelect == SelInit /\ TplIdle /\ LoadIdle /\ LockIdle /\ SndIdle /\ RunIdle

SpecSelect == InitSelect /\ [][SelCall]_vars

InitTemplate == SelIdle /\ TplInit /\ LoadIdle /\ LockIdle /\ SndIdle /\ RunIdle

NextTemplate == ReplaceCall \/ ReplaceDictCall

SpecTemplate == InitTemplate /\ [][NextTemplate]_vars

InitChoose == SelIdle /\ ChooseInit /\ LoadIdle /\ LockIdle /\ SndIdle /\ RunIdle

NextChoose == ChooseMessage \/ ChoosePayload

SpecChoose == InitChoose /\ [][NextChoose]_vars

InitLoad == SelIdle /\ TplIdle /\ LoadInit /\ LockIdle /\ SndIdle /\ RunIdle

NextLoad == LoadConfigFile \/ LoadConfigsReturn

SpecLoad == InitLoad /\ [][NextLoad]_vars

InitLock == CallIdle /\ LockInit /\ SndIdle /\ RunIdle

SpecLock == InitLock /\ [][LockNext]_vars

InitMain == CallIdle /\ MainInit /\ SndIdle /\ RunIdle

SpecMain == InitMain /\ [][LockNext]_vars

InitNotify == CallIdle /\ LockIdle /\ SndInit /\ RunIdle

NextNotify == SendEnter \/ SendAttempt \/ SendBackoff

SpecNotify == InitNotify /\ [][NextNotify]_vars

InitPass == CallIdle /\ LockIdle /\ SndIdle /\ PassInit

\* with one server and the default settings no payload template breaks and
\* run() never sleeps between servers
PassNext ==
    \/ StartPass
    \/ ListStep
    \/ SelectStep
    \/ CreateStep
    \/ PollStep
    \/ PollTimeout
    \/ DeleteNothing
    \/ DeleteStep
    \/ RelistStep
    \/ StatusStep
    \/ TelegramStep
    \/ SendEnter
    \/ SendAttempt
    \/ SendBackoff
    \/ TelegramReturn
    \/ WebhookStep
    \/ WebhookReturn
    \/ PassReturns
    \/ Summary

SpecPass == InitPass /\ [][PassNext]_vars

\* the pass of one server up to the end of step 3
NextCreate ==
    \/ StartPass
    \/ ListStep
    \/ SelectStep
    \/ CreateStep
    \/ PollStep
    \/ PollTimeout

SpecCreate == InitPass /\ [][NextCreate]_vars

\* the polling loop is sequential code whose requests have a timeout of
\* their own: an iteration that can run does run
SpecCreateFair == SpecCreate /\ WF_vars(PollStep) /\ WF_vars(PollTimeout)

\* consecutive passes for one server
InitSteady == CallIdle /\ LockIdle /\ SndIdle /\ SteadyInit

NextSteady ==
    \/ PassNext
    \/ SleepBetweenServers

SpecSteady == InitSteady /\ [][NextSteady]_vars

Init == CallIdle /\ LockIdle /\ SndIdle /\ RunInit

Next == RunNext

Spec == Init /\ [][Next]_vars

====
